---- MODULE Spec2Model ----
(***************************************************************************)
(* Model of the developer-workflow scripts of scale-with-neon-demo:        *)
(* cleanup-feature (three variants), init-new-feature, create-snapshot,    *)
(* test-commit-id and restore-prod.  Every script is a linear sequence of  *)
(* steps; each step is one action, the outcome of an external command      *)
(* (git, HTTP) is drawn with \E.                                           *)
(*                                                                         *)
(* Strings whose characters matter (branch names, commit ids) are          *)
(* sequences of one-character strings.  The text of the .env file and the  *)
(* connection URIs are sequences of tokens, each token standing for one    *)
(* fixed piece of text (see the "tokens" section).                         *)
(***************************************************************************)
EXTENDS Integers, Sequences, FiniteSets, TLC

VARIABLES
    chain,         \* the scripts that ran, successfully, before this run
    env0,          \* the .env file as it was before the first run
    script,        \* which orchestrator this run executes
    variant,       \* cleanup-feature only: which of the three variants
    pc,            \* position of the run inside the script
    argv,          \* process.argv.slice(2) : sequence of strings
    procEnv,       \* process.env : which configuration values are set
    gitCur,        \* git: the checked-out branch ("" when HEAD is detached)
    gitBranches,   \* git: the local branches
    branches,      \* provider: the project's branch list
    snapshots,     \* provider: the project's snapshot list
    envFile,       \* the .env file: whether it exists, and its text
    envWrites,     \* how many times this run has written the .env file
    httpLog,       \* the provider requests issued by this run, in order
    gitLog,        \* the git commands executed by this run, in order
    exitCode,      \* Running while the script runs, then 0 or 1
    msg,           \* the fatal message printed, "" when none
    branchName,    \* local: the git branch name / the commit id of the run
    branchesData,  \* local: the branch list returned by GET /branches
    target,        \* local: featureBranch / productionBranch / targetSnapshot
    devBranch,     \* local: developmentBranch (cleanup-feature)
    databaseUrl,   \* local: the connection URI obtained by the run
    resp,          \* local: the body of the provider's last create/restore answer
    failed,        \* the external operations of this run that failed
    currentBranch, \* local: the position of the parent-chain walk (which-db)
    hierarchy,     \* local: hierarchy.length of the walk, modulo HierarchyWrap
    contacts,        \* page: useState<Contact[]>([])
    loading,         \* page: useState(true)
    error,           \* page: useState<string | null>(null), "" for null
    isAddingContact, \* page: useState(false)
    editingContact,  \* page: useState<Contact | null>(null), <<>> for null
    formData,        \* page: useState({ name: "", email: "" })
    inFlight,        \* page: the set of asynchronous calls that have not finished
    db               \* the contacts table behind /api/contacts

\* the state of the contacts page and of its server
pageVars ==
    <<contacts, loading, error, isAddingContact, editingContact, formData,
      inFlight, db>>

vars == <<chain, env0, script, variant, pc, argv, procEnv, gitCur, gitBranches, branches,
          snapshots, envFile, envWrites, httpLog, gitLog, exitCode, msg, branchName,
          branchesData, target, devBranch, databaseUrl, resp, failed,
          currentBranch, hierarchy, pageVars>>

----------------------------------------------------------------------------
(* Bounds of the model *)

MaxBranches == 2     \* longest provider branch list drawn in Init
MaxSnapshots == 2    \* longest provider snapshot list drawn in Init
MaxEnvLines == 3     \* most lines of a .env file drawn in Init
MaxRuns == 2         \* longest chain of runs
MaxContacts == 1     \* most contacts the table ever issues an id for
MaxPending == 2      \* most asynchronous calls of the page in flight at once
HierarchyWrap == 2   \* the length of the printed hierarchy is kept modulo this

----------------------------------------------------------------------------
(* Strings as sequences of characters *)

LowerAlpha == <<"a","b","c","d","e","f","g","h","i","j","k","l","m",
                "n","o","p","q","r","s","t","u","v","w","x","y","z">>
UpperAlpha == <<"A","B","C","D","E","F","G","H","I","J","K","L","M",
                "N","O","P","Q","R","S","T","U","V","W","X","Y","Z">>
Digits == {"0","1","2","3","4","5","6","7","8","9"}

Range(s) == { s[i] : i \in 1..Len(s) }

\* String.prototype.toLowerCase, on the characters of the model
ToLowerChar(c) ==
    IF \E i \in 1..26 : UpperAlpha[i] = c
    THEN LowerAlpha[CHOOSE i \in 1..26 : UpperAlpha[i] = c]
    ELSE c

ToLowerCase(s) == [i \in 1..Len(s) |-> ToLowerChar(s[i])]

\* variant: the underscore is kept, as the class \w would
SanitizeChar_Mut(c) ==
    IF c \in Range(LowerAlpha) \cup Range(UpperAlpha) \cup Digits \cup {"-", "_"}
    THEN c ELSE "-"

\* name.replace(/[^a-zA-Z0-9-]/g, "-")
SanitizeChar(c) ==
    IF c \in Range(LowerAlpha) \cup Range(UpperAlpha) \cup Digits \cup {"-"}
    THEN c ELSE "-"

Sanitize(s) == [i \in 1..Len(s) |-> SanitizeChar(s[i])]

s_main == <<"m","a","i","n">>
s_Main == <<"M","a","i","n">>
s_master == <<"m","a","s","t","e","r">>
s_development == <<"d","e","v","e","l","o","p","m","e","n","t">>
s_dev == <<"d","e","v">>
s_develop == <<"d","e","v","e","l","o","p">>
s_production == <<"p","r","o","d","u","c","t","i","o","n">>
s_Production == <<"P","r","o","d","u","c","t","i","o","n">>
s_prod == <<"p","r","o","d">>
s_staging == <<"s","t","a","g","i","n","g">>
s_featSlash == <<"f","/","x">>
s_featDash == <<"f","-","x">>
s_featMixed == <<"F","_","1",".","@"," ">>
s_flagLong == <<"-","-","d","e","l","e","t","e","-","g","i","t","-","b","r","a","n","c","h">>
s_flagShort == <<"-","g">>
s_prodDash == <<"p","r","o","d","-">>
s_testDash == <<"t","e","s","t","-">>

\* commit ids: 7 characters, its upper-case twin, 8, 6 and 5 characters
c_abc123f == <<"a","b","c","1","2","3","f">>
c_ABC123F == <<"A","B","C","1","2","3","F">>
c_abc123f0 == <<"a","b","c","1","2","3","f","0">>
c_abc123 == <<"a","b","c","1","2","3">>
c_abc12 == <<"a","b","c","1","2">>

----------------------------------------------------------------------------
(* Tokens of the .env text.  A text is a sequence of tokens; NL is the     *)
(* line feed, KEY the text DATABASE_URL= , the three prefixes turn KEY     *)
(* into PRODUCTION_DATABASE_URL= , ORIGINAL_DATABASE_URL= and              *)
(* DEVELOPMENT_DATABASE_URL= , QUOTE is the double quote, the other        *)
(* tokens are pieces of text that contain none of these.                   *)

NL == "\n"
KEY == "DATABASE_URL="
PRODUCTION == "PRODUCTION_"
ORIGINAL == "ORIGINAL_"
DEVELOPMENT == "DEVELOPMENT_"
QUOTE == "\""

\* text.split("\n")
RECURSIVE Split(_)
Split(text) ==
    IF \A i \in 1..Len(text) : text[i] # NL
    THEN <<text>>
    ELSE LET i == CHOOSE j \in 1..Len(text) :
                      text[j] = NL /\ \A k \in 1..(j-1) : text[k] # NL
         IN  <<SubSeq(text, 1, i-1)>> \o Split(SubSeq(text, i+1, Len(text)))

\* lines.join("\n")
RECURSIVE Join(_)
Join(lines) ==
    IF Len(lines) = 0 THEN <<>>
    ELSE IF Len(lines) = 1 THEN lines[1]
    ELSE lines[1] \o <<NL>> \o Join(Tail(lines))

\* line.startsWith(prefix)
StartsWith(line, prefix) ==
    Len(line) >= Len(prefix) /\ SubSeq(line, 1, Len(prefix)) = prefix

\* text.includes("DATABASE_URL=") and the like: the tokens of sub, adjacent
Includes(text, sub) ==
    \E i \in 0..(Len(text) - Len(sub)) : SubSeq(text, i+1, i+Len(sub)) = sub

\* value.replace(/"/g, "")
RECURSIVE StripQuotes(_)
StripQuotes(s) ==
    IF s = <<>> THEN <<>>
    ELSE IF Head(s) = QUOTE THEN StripQuotes(Tail(s))
    ELSE <<Head(s)>> \o StripQuotes(Tail(s))

\* value.replace(/^"|"$/g, "")
TrimQuotes(s) ==
    LET a == IF s # <<>> /\ Head(s) = QUOTE THEN Tail(s) ELSE s
    IN  IF a # <<>> /\ a[Len(a)] = QUOTE THEN SubSeq(a, 1, Len(a)-1) ELSE a

\* index of the first line matching /^prefix.*$/m, 0 when there is none
FirstLine(lines, prefix) ==
    IF \E i \in 1..Len(lines) : StartsWith(lines[i], prefix)
    THEN CHOOSE i \in 1..Len(lines) :
             StartsWith(lines[i], prefix)
             /\ \A k \in 1..(i-1) : ~StartsWith(lines[k], prefix)
    ELSE 0

\* text.match(/^prefix(.*)$/m) : <<group 1>> or <<>> for null
MatchLine(text, prefix) ==
    LET lines == Split(text)
        i == FirstLine(lines, prefix)
    IN  IF i = 0 THEN <<>>
        ELSE <<SubSeq(lines[i], Len(prefix)+1, Len(lines[i]))>>

\* text.replace(/^prefix.*$/m, newLine)
ReplaceLine(text, prefix, newLine) ==
    LET lines == Split(text)
        i == FirstLine(lines, prefix)
    IN  IF i = 0 THEN text
        ELSE Join([lines EXCEPT ![i] = newLine])

\* text.replace(/\n\n+/g, "\n\n")
RECURSIVE CollapseBlank(_)
CollapseBlank(text) ==
    IF Len(text) < 3 THEN text
    ELSE IF text[1] = NL /\ text[2] = NL /\ text[3] = NL
         THEN CollapseBlank(Tail(text))
         ELSE <<Head(text)>> \o CollapseBlank(Tail(text))

----------------------------------------------------------------------------
(* Helpers shared by the scripts *)

Running == -1

\* Array.prototype.find : <<the first element of the list that is one of
\* hits (the elements satisfying the callback)>>, <<>> when there is none
FindFirst(list, hits) ==
    IF \E i \in 1..Len(list) : list[i] \in hits
    THEN <<list[CHOOSE i \in 1..Len(list) :
                    list[i] \in hits /\ \A k \in 1..(i-1) : list[k] \notin hits]>>
    ELSE <<>>

\* list without its elements of the given id (the provider deleting a branch)
RECURSIVE Without(_, _)
Without(list, id) ==
    IF list = <<>> THEN <<>>
    ELSE IF Head(list).id = id THEN Without(Tail(list), id)
    ELSE <<Head(list)>> \o Without(Tail(list), id)

Req(method, path, id, body) ==
    [method |-> method, path |-> path, id |-> id, body |-> body]

Git(cmd, arg) == [cmd |-> cmd, arg |-> arg]

\* an external operation that failed: op is "http", "git" or "file"; at is
\* its position in httpLog or gitLog (0 for the file); status is the HTTP
\* status of the answer (0 for git and the file)
Failure(op, at, status) == [op |-> op, at |-> at, status |-> status]

\* the HTTP status of a provider answer: a 2xx or a server error
HttpStatus == {200, 500}

\* response.ok: the status is in the range 200-299
\* variant: every answer is taken as a success
ResponseOk_Mut(status) == TRUE

ResponseOk(status) == status \in 200..299

\* the non-2xx answer to the request this step appends to httpLog
HttpAnswer(status) ==
    IF status \in 200..299 THEN failed
    ELSE failed \cup {Failure("http", Len(httpLog) + 1, status)}

\* the outcome of the git command this step appends to gitLog
GitAnswer(ok) ==
    IF ok THEN failed ELSE failed \cup {Failure("git", Len(gitLog) + 1, 0)}

\* the outcome of reading and writing .env
FileAnswer(ok) ==
    IF ok THEN failed ELSE failed \cup {Failure("file", 0, 0)}

\* the useState defaults of the contacts page
NoFormData == [name |-> "", email |-> ""]
\* the contacts table: its rows and how many ids it has issued
NoContacts == [rows |-> <<>>, issued |-> 0]
PageDefaults ==
    /\ contacts = <<>> /\ loading = TRUE /\ error = ""
    /\ isAddingContact = FALSE /\ editingContact = <<>>
    /\ formData = NoFormData

\* process.exit(code) after printing m; a normal return is Exit(0, "")
Exit(code, m) == pc' = "done" /\ exitCode' = code /\ msg' = m

\* !process.env.NEON_API_KEY, then !process.env.NEON_PROJECT_ID
ConfigError ==
    IF ~procEnv.NEON_API_KEY THEN "NEON_API_KEY environment variable is required"
    ELSE IF ~procEnv.NEON_PROJECT_ID
    THEN "NEON_PROJECT_ID environment variable is required"
    ELSE ""

\* The line-based update of DATABASE_URL: replace the first line that starts
\* with DATABASE_URL=, else append one (after an empty line when the text
\* does not end with a line feed)
UpsertLines(envContent, url) ==
    LET lines == Split(envContent)
        newLine == <<KEY, QUOTE>> \o url \o <<QUOTE>>
        i == FirstLine(lines, <<KEY>>)
    IN  IF i # 0 THEN Join([lines EXCEPT ![i] = newLine])
        ELSE IF envContent # <<>> /\ envContent[Len(envContent)] # NL
        THEN Join(lines \o << <<>>, newLine >>)
        ELSE Join(lines \o <<newLine>>)

\* existsSync(envPath) ? readFileSync(envPath) : ""
ReadEnvOrEmpty == IF envFile.exists THEN envFile.text ELSE <<>>

\* writeFileSync(envPath, text)
Written(text) == [exists |-> TRUE, text |-> text]

----------------------------------------------------------------------------
(* cleanup-feature.  variant "manual" is scripts/cleanup-feature.ts,       *)
(* "auto" the variant that rewrites .env from DEVELOPMENT_DATABASE_URL,    *)
(* "flag" the variant with --delete-git-branch / -g.                       *)

protectedBranches ==
    {s_main, s_master, s_development, s_dev, s_develop, s_production, s_prod}

\* the variants that carry the protected-branch check
HasProtection(v) == v \in {"manual", "auto"}

\* protectedBranches.includes(branchName.toLowerCase())
IsProtected(name) == ToLowerCase(name) \in protectedBranches

\* the branch names the inference from the current git branch refuses
InferRefused(cur) == cur = <<>> \/ cur \in {s_main, s_master, s_development}

AfterName(v) == IF HasProtection(v) THEN "protect" ELSE "config"

\* process.argv[2], the empty string when there is none (both are falsy)
Arg1 == IF argv = <<>> THEN <<>> ELSE argv[1]

\* let branchName = process.argv[2]; if (!branchName) ... is false
CF_Args ==
    /\ script = "cleanup" /\ pc = "start"
    /\ Arg1 # <<>>
    /\ branchName' = Arg1
    /\ pc' = AfterName(variant)
    /\ UNCHANGED <<failed, chain, env0, script, variant, argv, procEnv, gitCur,
                   gitBranches, branches,
                   snapshots, envFile, envWrites, httpLog, gitLog, exitCode, msg,
                   branchesData, target, devBranch, databaseUrl, resp>>
    /\ UNCHANGED <<currentBranch, hierarchy, pageVars>>

\* no branch name given: git branch --show-current
CF_Infer ==
    /\ script = "cleanup" /\ pc = "start"
    /\ Arg1 = <<>>
    /\ gitLog' = Append(gitLog, Git("branch --show-current", <<>>))
    /\ \E ok \in BOOLEAN :
         IF ~ok
         THEN /\ Exit(1, "Could not determine current git branch")
              /\ UNCHANGED branchName
         ELSE IF InferRefused(gitCur)
         THEN /\ Exit(1, "Please provide a feature branch name")
              /\ UNCHANGED branchName
         ELSE /\ branchName' = gitCur
              /\ pc' = AfterName(variant)
              /\ UNCHANGED <<exitCode, msg>>
    /\ UNCHANGED <<failed, chain, env0, script, variant, argv, procEnv, gitCur,
                   gitBranches, branches,
                   snapshots, envFile, envWrites, httpLog, branchesData, target, devBranch,
                   databaseUrl, resp>>
    /\ UNCHANGED <<currentBranch, hierarchy, pageVars>>

\* the protected-branch check of the variants that have one
CF_Protect ==
    /\ script = "cleanup" /\ pc = "protect"
    /\ IF IsProtected(branchName)
       THEN Exit(1, "Cannot cleanup protected branch")
       ELSE pc' = "config" /\ UNCHANGED <<exitCode, msg>>
    /\ UNCHANGED <<failed, chain, env0, script, variant, argv, procEnv, gitCur,
                   gitBranches, branches,
                   snapshots, envFile, envWrites, httpLog, gitLog, branchName,
                   branchesData, target, devBranch, databaseUrl, resp>>
    /\ UNCHANGED <<currentBranch, hierarchy, pageVars>>

\* NEON_API_KEY and NEON_PROJECT_ID must be set
CF_Config ==
    /\ script = "cleanup" /\ pc = "config"
    /\ IF ConfigError # ""
       THEN Exit(1, ConfigError)
       ELSE pc' = "list" /\ UNCHANGED <<exitCode, msg>>
    /\ UNCHANGED <<failed, chain, env0, script, variant, argv, procEnv, gitCur,
                   gitBranches, branches,
                   snapshots, envFile, envWrites, httpLog, gitLog, branchName,
                   branchesData, target, devBranch, databaseUrl, resp>>
    /\ UNCHANGED <<currentBranch, hierarchy, pageVars>>

\* the name(s) a provider branch must carry to be the feature branch
IsFeatureBranch(v, b, name) ==
    IF v = "flag"
    THEN b.name = Sanitize(name) \/ b.name = name
    ELSE b.name = Sanitize(name)

\* Step 1: GET /branches, then find the feature branch in the answer
CF_ListBranches ==
    /\ script = "cleanup" /\ pc = "list"
    /\ httpLog' = Append(httpLog, Req("GET", "branches", "", <<>>))
    /\ \E status \in HttpStatus : LET ok == ResponseOk(status) IN
         /\ failed' = HttpAnswer(status)
         /\ IF ~ok
            THEN /\ Exit(1, "Failed to fetch branches")
                 /\ UNCHANGED <<branchesData, target>>
            ELSE LET P(b) == IsFeatureBranch(variant, b, branchName)
                 IN  /\ branchesData' = branches
                     /\ target' = FindFirst(branches, {e \in Range(branches) : P(e)})
                     /\ pc' = "delete"
                     /\ UNCHANGED <<exitCode, msg>>
    /\ UNCHANGED <<chain, env0, script, variant, argv, procEnv, gitCur,
                   gitBranches, branches,
                   snapshots, envFile, envWrites, gitLog, branchName, devBranch,
                   databaseUrl, resp>>
    /\ UNCHANGED <<currentBranch, hierarchy, pageVars>>

IsDevelopmentBranch(b) == b.name \in {s_development, s_dev, s_develop}

\* the answers to DELETE /branches/{id}: done, not found (the branch is
\* already gone), any other error
DeleteStatus == {200, 404, 500}

\* Step 2: DELETE /branches/{id} when the feature branch was found (any
\* answer that is not ok is thrown to the catch-all); then
\* Step 3: find the development branch in the list fetched in step 1
CF_DeleteBranch ==
    /\ script = "cleanup" /\ pc = "delete"
    /\ IF target = <<>>
       THEN /\ devBranch' = FindFirst(branchesData,
                   {e \in Range(branchesData) : IsDevelopmentBranch(e)})
            /\ pc' = "dev"
            /\ UNCHANGED <<httpLog, branches, exitCode, msg, failed>>
       ELSE /\ httpLog' = Append(httpLog,
                              Req("DELETE", "branches/{id}", target[1].id, <<>>))
            /\ \E status \in DeleteStatus :
                 IF ~ResponseOk(status)
                 THEN /\ failed' = HttpAnswer(status)
                      /\ Exit(1, "Failed to delete branch")
                      /\ UNCHANGED <<branches, devBranch>>
                 ELSE /\ branches' = Without(branches, target[1].id)
                      /\ devBranch' = FindFirst(branchesData,
                             {e \in Range(branchesData) : IsDevelopmentBranch(e)})
                      /\ pc' = "dev"
                      /\ UNCHANGED <<exitCode, msg, failed>>
    /\ UNCHANGED <<chain, env0, script, variant, argv, procEnv, gitCur, gitBranches,
                   snapshots, envFile, envWrites, gitLog, branchName, branchesData,
                   target, databaseUrl, resp>>
    /\ UNCHANGED <<currentBranch, hierarchy, pageVars>>

\* if (!developmentBranch): "flag" returns, the others go on to the git
\* cleanup; else step 4
CF_DevBranch ==
    /\ script = "cleanup" /\ pc = "dev"
    /\ IF devBranch = <<>>
       THEN IF variant = "flag"
            THEN Exit(0, "")
            ELSE pc' = "git" /\ UNCHANGED <<exitCode, msg>>
       ELSE /\ pc' = IF variant = "auto" THEN "env" ELSE "endpoints"
            /\ UNCHANGED <<exitCode, msg>>
    /\ UNCHANGED <<failed, chain, env0, script, variant, argv, procEnv, gitCur,
                   gitBranches, branches,
                   snapshots, envFile, envWrites, httpLog, gitLog, branchName,
                   branchesData, target, devBranch, databaseUrl, resp>>
    /\ UNCHANGED <<currentBranch, hierarchy, pageVars>>

\* Step 4 of "manual" and "flag": GET /branches/{id}/endpoints; whatever the
\* answer, only instructions are printed
CF_Endpoints ==
    /\ script = "cleanup" /\ pc = "endpoints"
    /\ httpLog' = Append(httpLog,
                    Req("GET", "branches/{id}/endpoints", devBranch[1].id, <<>>))
    /\ \E status \in HttpStatus : failed' = HttpAnswer(status)
    /\ pc' = "git"
    /\ UNCHANGED <<chain, env0, script, variant, argv, procEnv, gitCur, gitBranches,
                   branches, snapshots, envFile, envWrites, gitLog, exitCode, msg,
                   branchName, branchesData, target, devBranch, databaseUrl, resp>>
    /\ UNCHANGED <<currentBranch, hierarchy, pageVars>>

\* the value of the first DEVELOPMENT_DATABASE_URL= line, "" when none
DevelopmentUrl(envContent) ==
    LET m == MatchLine(envContent, <<DEVELOPMENT, KEY>>)
    IN  IF m = <<>> THEN <<>> ELSE TrimQuotes(m[1])

\* Step 4 of "auto": DATABASE_URL := DEVELOPMENT_DATABASE_URL in .env; a
\* failing read or write is a warning
CF_UpdateEnv ==
    /\ script = "cleanup" /\ pc = "env"
    /\ \E ioOk \in BOOLEAN :
         /\ failed' = FileAnswer(ioOk)
         /\ LET envContent == ReadEnvOrEmpty
                url == DevelopmentUrl(envContent)
            IN  IF ioOk /\ url # <<>>
                THEN /\ envFile' = Written(UpsertLines(envContent, url))
                     /\ envWrites' = envWrites + 1
                     /\ databaseUrl' = url
                ELSE UNCHANGED <<envFile, envWrites, databaseUrl>>
    /\ pc' = "git"
    /\ UNCHANGED <<chain, env0, script, variant, argv, procEnv, gitCur,
                   gitBranches, branches,
                   snapshots, httpLog, gitLog, exitCode, msg, branchName,
                   branchesData, target, devBranch, resp>>
    /\ UNCHANGED <<currentBranch, hierarchy, pageVars>>

\* process.argv.includes("--delete-git-branch") || process.argv.includes("-g")
ShouldDeleteGitBranch ==
    \E i \in 1..Len(argv) : argv[i] \in {s_flagLong, s_flagShort}

\* git can check out a branch that exists, and can always fail
CanCheckout(name) == name \in gitBranches
\* git deletes a local branch that exists and is not checked out
CanDelete(name) == name \in gitBranches /\ name # gitCur

\* Step 5: git checkout main ("flag": only with the flag)
CF_Checkout ==
    /\ script = "cleanup" /\ pc = "git"
    /\ IF variant = "flag" /\ ~ShouldDeleteGitBranch
       THEN /\ pc' = "finish"
            /\ UNCHANGED <<gitLog, gitCur>>
       ELSE /\ gitLog' = Append(gitLog, Git("checkout", s_main))
            /\ \E ok \in {CanCheckout(s_main), FALSE} :
                 IF ok
                 THEN gitCur' = s_main /\ pc' = "forceDelete"
                 ELSE UNCHANGED gitCur /\ pc' = "finish"
    /\ UNCHANGED <<failed, chain, env0, script, variant, argv, procEnv,
                   gitBranches, branches,
                   snapshots, envFile, envWrites, httpLog, exitCode, msg, branchName,
                   branchesData, target, devBranch, databaseUrl, resp>>
    /\ UNCHANGED <<currentBranch, hierarchy, pageVars>>

\* git branch -D <branchName>
CF_ForceDelete ==
    /\ script = "cleanup" /\ pc = "forceDelete"
    /\ gitLog' = Append(gitLog, Git("branch -D", branchName))
    /\ \E ok \in {CanDelete(branchName), FALSE} :
         IF ok
         THEN gitBranches' = gitBranches \ {branchName} /\ pc' = "finish"
         ELSE /\ UNCHANGED gitBranches
              /\ pc' = IF variant = "flag" THEN "finish" ELSE "safeDelete"
    /\ UNCHANGED <<failed, chain, env0, script, variant, argv, procEnv, gitCur, branches,
                   snapshots, envFile, envWrites, httpLog, exitCode, msg, branchName,
                   branchesData, target, devBranch, databaseUrl, resp>>
    /\ UNCHANGED <<currentBranch, hierarchy, pageVars>>

\* the fallback after a failed force delete: git branch -d <branchName>
CF_SafeDelete ==
    /\ script = "cleanup" /\ pc = "safeDelete"
    /\ gitLog' = Append(gitLog, Git("branch -d", branchName))
    /\ \E ok \in {CanDelete(branchName), FALSE} :
         IF ok
         THEN gitBranches' = gitBranches \ {branchName}
         ELSE UNCHANGED gitBranches
    /\ pc' = "finish"
    /\ UNCHANGED <<failed, chain, env0, script, variant, argv, procEnv, gitCur, branches,
                   snapshots, envFile, envWrites, httpLog, exitCode, msg, branchName,
                   branchesData, target, devBranch, databaseUrl, resp>>
    /\ UNCHANGED <<currentBranch, hierarchy, pageVars>>

\* Step 6: the summary; the script ends normally
CF_Finish ==
    /\ script = "cleanup" /\ pc = "finish"
    /\ Exit(0, "")
    /\ UNCHANGED <<failed, chain, env0, script, variant, argv, procEnv, gitCur,
                   gitBranches, branches,
                   snapshots, envFile, envWrites, httpLog, gitLog, branchName,
                   branchesData, target, devBranch, databaseUrl, resp>>
    /\ UNCHANGED <<currentBranch, hierarchy, pageVars>>

----------------------------------------------------------------------------
(* init-new-feature *)

inputs == <<chain, env0, script, variant, argv, procEnv>>

\* the tokens of a connection URI, and the hosts the provider may name
URI_HEAD == "postgresql://neondb_owner:secret@"
URI_TAIL == "/neondb?sslmode=require"
HOST == "ep-one.aws.neon.tech"
POOLER_HOST == "ep-one-pooler.aws.neon.tech"

\* a ConnectionUri of the provider's answer
ConnectionUris ==
    { [connection_uri |-> <<URI_HEAD, HOST, URI_TAIL>>,
       host |-> HOST, pooler_host |-> ph] : ph \in {"", POOLER_HOST} }

\* uri.replace(host, poolerHost) : the first occurrence only
ReplaceFirst(uri, host, by) ==
    IF \E i \in 1..Len(uri) : uri[i] = host
    THEN LET i == CHOOSE j \in 1..Len(uri) :
                      uri[j] = host /\ \A k \in 1..(j-1) : uri[k] # host
         IN  [uri EXCEPT ![i] = by]
    ELSE uri

\* poolerHost ? connection_uri.replace(host, poolerHost) : connection_uri
PooledUrl(c) ==
    IF c.pooler_host # ""
    THEN ReplaceFirst(c.connection_uri, c.host, c.pooler_host)
    ELSE c.connection_uri

\* branches.find(b => b.name === 'production' || b.name === 'main' ||
\*                    b.default === true)
IsInitProduction(b) == b.name = s_production \/ b.name = s_main \/ b.default

\* variant: falls back to the first branch listed when nothing is found
InitProductionBranch_Mut(list) ==
    IF FindFirst(list, {e \in Range(list) : IsInitProduction(e)}) # <<>> \/ list = <<>>
    THEN FindFirst(list, {e \in Range(list) : IsInitProduction(e)})
    ELSE <<list[1]>>

InitProductionBranch(list) == FindFirst(list, {e \in Range(list) : IsInitProduction(e)})

\* const branchName = process.argv[2]; then the configuration check
IN_Args ==
    /\ script = "init" /\ pc = "start"
    /\ IF Arg1 = <<>>
       THEN Exit(1, "Please provide a branch name") /\ UNCHANGED branchName
       ELSE IF ConfigError # ""
       THEN Exit(1, ConfigError) /\ UNCHANGED branchName
       ELSE /\ branchName' = Arg1
            /\ pc' = "checkout"
            /\ UNCHANGED <<exitCode, msg>>
    /\ UNCHANGED <<failed, inputs, gitCur, gitBranches, branches, snapshots,
                   envFile, envWrites,
                   httpLog, gitLog, branchesData, target, devBranch,
                   databaseUrl, resp>>
    /\ UNCHANGED <<currentBranch, hierarchy, pageVars>>

\* Step 1a: git checkout main (a failure is thrown to the catch-all)
IN_Checkout ==
    /\ script = "init" /\ pc = "checkout"
    /\ gitLog' = Append(gitLog, Git("checkout", s_main))
    /\ \E ok \in {CanCheckout(s_main), FALSE} :
         IF ok
         THEN gitCur' = s_main /\ pc' = "pull" /\ UNCHANGED <<exitCode, msg>>
         ELSE UNCHANGED gitCur /\ Exit(1, "git checkout main failed")
    /\ UNCHANGED <<failed, inputs, gitBranches, branches, snapshots, envFile,
                   envWrites, httpLog,
                   branchName, branchesData, target, devBranch, databaseUrl,
                   resp>>
    /\ UNCHANGED <<currentBranch, hierarchy, pageVars>>

\* Step 1b: git pull origin main (a failure is thrown to the catch-all)
IN_Pull ==
    /\ script = "init" /\ pc = "pull"
    /\ gitLog' = Append(gitLog, Git("pull origin main", <<>>))
    /\ \E ok \in BOOLEAN :
         /\ failed' = GitAnswer(ok)
         /\ IF ok
            THEN pc' = "branch" /\ UNCHANGED <<exitCode, msg>>
            ELSE Exit(1, "git pull origin main failed")
    /\ UNCHANGED <<inputs, gitCur, gitBranches, branches, snapshots, envFile, envWrites,
                   httpLog, branchName, branchesData, target, devBranch,
                   databaseUrl, resp>>
    /\ UNCHANGED <<currentBranch, hierarchy, pageVars>>

\* Step 1c: git checkout -b <branchName>
IN_Branch ==
    /\ script = "init" /\ pc = "branch"
    /\ gitLog' = Append(gitLog, Git("checkout -b", branchName))
    /\ \E ok \in {branchName \notin gitBranches, FALSE} :
         IF ok
         THEN /\ gitBranches' = gitBranches \cup {branchName}
              /\ gitCur' = branchName
              /\ pc' = "list"
              /\ UNCHANGED <<exitCode, msg>>
         ELSE /\ UNCHANGED <<gitBranches, gitCur>>
              /\ Exit(1, "git checkout -b failed")
    /\ UNCHANGED <<failed, inputs, branches, snapshots, envFile, envWrites, httpLog, branchName,
                   branchesData, target, devBranch, databaseUrl, resp>>
    /\ UNCHANGED <<currentBranch, hierarchy, pageVars>>

\* Step 2: GET /branches and the search for the production branch
IN_ListBranches ==
    /\ script = "init" /\ pc = "list"
    /\ httpLog' = Append(httpLog, Req("GET", "branches", "", <<>>))
    /\ \E status \in HttpStatus : LET ok == ResponseOk(status) IN
         /\ failed' = HttpAnswer(status)
         /\ IF ~ok
            THEN /\ Exit(1, "Failed to fetch branches")
                 /\ UNCHANGED <<branchesData, target>>
            ELSE /\ branchesData' = branches
                 /\ target' = InitProductionBranch(branches)
                 /\ IF InitProductionBranch(branches) = <<>>
                    THEN Exit(1, "Production branch not found")
                    ELSE pc' = "create" /\ UNCHANGED <<exitCode, msg>>
    /\ UNCHANGED <<inputs, gitCur, gitBranches, branches, snapshots, envFile, envWrites,
                   gitLog, branchName, devBranch, databaseUrl, resp>>
    /\ UNCHANGED <<currentBranch, hierarchy, pageVars>>

\* createBranchPayload.branch : parent_id and the sanitized name
\* variant: the payload carries the name as typed
CreateBranchPayload_Mut(parent, name) == <<parent.id, name>>

CreateBranchPayload(parent, name) == <<parent.id, Sanitize(name)>>

\* the branch the provider creates for a POST /branches
NewBranch(id, name) ==
    [id |-> id, name |-> name, default |-> FALSE, primary |-> FALSE]

\* Step 3: POST /branches {parent_id, name: sanitized}; Step 4: the pooled URI
IN_CreateBranch ==
    /\ script = "init" /\ pc = "create"
    /\ LET payload == CreateBranchPayload(target[1], branchName)
           name == payload[2]
       IN  /\ httpLog' = Append(httpLog, Req("POST", "branches", "", payload))
           /\ \E status \in HttpStatus : LET ok == ResponseOk(status) IN
                /\ failed' = HttpAnswer(status)
                /\ IF ~ok
                   THEN /\ Exit(1, "Failed to create branch")
                        /\ UNCHANGED <<branches, resp, databaseUrl>>
                   ELSE \E uris \in {<<>>} \cup { <<c>> : c \in ConnectionUris } :
                        /\ branches' = Append(branches, NewBranch("br-new", name))
                        /\ resp' = uris
                        /\ IF uris = <<>>
                           THEN /\ Exit(1, "No connection URI received from Neon API")
                                /\ UNCHANGED databaseUrl
                           ELSE /\ databaseUrl' = PooledUrl(uris[1])
                                /\ pc' = "env"
                                /\ UNCHANGED <<exitCode, msg>>
    /\ UNCHANGED <<inputs, gitCur, gitBranches, snapshots, envFile, envWrites, gitLog,
                   branchName, branchesData, target, devBranch>>
    /\ UNCHANGED <<currentBranch, hierarchy, pageVars>>

\* Step 5: rewrite DATABASE_URL in .env (a failing read or write is thrown to
\* the catch-all); Step 6: the summary
IN_UpdateEnv ==
    /\ script = "init" /\ pc = "env"
    /\ \E ioOk \in BOOLEAN :
         /\ failed' = FileAnswer(ioOk)
         /\ IF ioOk
            THEN /\ envFile' = Written(UpsertLines(ReadEnvOrEmpty, databaseUrl))
                 /\ envWrites' = envWrites + 1
                 /\ Exit(0, "")
            ELSE /\ UNCHANGED <<envFile, envWrites>>
                 /\ Exit(1, "file system error")
    /\ UNCHANGED <<inputs, gitCur, gitBranches, branches, snapshots, httpLog,
                   gitLog, branchName, branchesData, target, devBranch,
                   databaseUrl, resp>>
    /\ UNCHANGED <<currentBranch, hierarchy, pageVars>>

----------------------------------------------------------------------------
(* create-snapshot *)

MinCommitIdLength == 7

\* !commitId || commitId.length < 7
\* variant: six characters are enough
InvalidCommitId_Mut(c) == c = <<>> \/ Len(c) < MinCommitIdLength - 1

InvalidCommitId(c) == c = <<>> \/ Len(c) < MinCommitIdLength

\* `prod-${commitId}`
SnapshotName(c) == s_prodDash \o c

\* `test-${commitId}`
TestBranchName(c) == s_testDash \o c

IsNamedProduction(b) == ToLowerCase(b.name) = s_production
IsNamedMain(b) == ToLowerCase(b.name) = s_main
IsDefaultOrPrimary(b) == b.default \/ b.primary

\* find "production", else find "main", else find default || primary
SnapshotProductionBranch(list) ==
    IF FindFirst(list, {e \in Range(list) : IsNamedProduction(e)}) # <<>>
    THEN FindFirst(list, {e \in Range(list) : IsNamedProduction(e)})
    ELSE IF FindFirst(list, {e \in Range(list) : IsNamedMain(e)}) # <<>>
    THEN FindFirst(list, {e \in Range(list) : IsNamedMain(e)})
    ELSE FindFirst(list, {e \in Range(list) : IsDefaultOrPrimary(e)})

\* args.length === 0, the commit-id check and the configuration check
CS_Validate ==
    /\ script = "snapshot" /\ pc = "start"
    /\ IF argv = <<>>
       THEN Exit(1, "Commit ID is required") /\ UNCHANGED branchName
       ELSE IF InvalidCommitId(argv[1])
       THEN Exit(1, "Invalid commit ID provided") /\ UNCHANGED branchName
       ELSE IF ConfigError # ""
       THEN Exit(1, ConfigError) /\ UNCHANGED branchName
       ELSE /\ branchName' = argv[1]
            /\ pc' = "list"
            /\ UNCHANGED <<exitCode, msg>>
    /\ UNCHANGED <<failed, inputs, gitCur, gitBranches, branches, snapshots,
                   envFile, envWrites,
                   httpLog, gitLog, branchesData, target, devBranch,
                   databaseUrl, resp>>
    /\ UNCHANGED <<currentBranch, hierarchy, pageVars>>

\* Step 1: GET /branches and the search for the production branch
CS_ListBranches ==
    /\ script = "snapshot" /\ pc = "list"
    /\ httpLog' = Append(httpLog, Req("GET", "branches", "", <<>>))
    /\ \E status \in HttpStatus : LET ok == ResponseOk(status) IN
         /\ failed' = HttpAnswer(status)
         /\ IF ~ok
            THEN /\ Exit(1, "Failed to fetch branches")
                 /\ UNCHANGED <<branchesData, target>>
            ELSE /\ branchesData' = branches
                 /\ target' = SnapshotProductionBranch(branches)
                 /\ IF SnapshotProductionBranch(branches) = <<>>
                    THEN Exit(1, "Production branch not found")
                    ELSE pc' = "create" /\ UNCHANGED <<exitCode, msg>>
    /\ UNCHANGED <<inputs, gitCur, gitBranches, branches, snapshots, envFile, envWrites,
                   gitLog, branchName, devBranch, databaseUrl, resp>>
    /\ UNCHANGED <<currentBranch, hierarchy, pageVars>>

\* the status of a snapshot in the answer of GET /snapshots: one of the
\* declared values, or "" for an answer that carries no status field (the
\* case the `targetSnapshot.status &&` test of test-commit-id is there for)
SnapshotStatus == {"active", "expired", "creating", "error", ""}

\* Step 2: POST /branches/{id}/snapshot {name: prod-<commit-id>}
CS_CreateSnapshot ==
    /\ script = "snapshot" /\ pc = "create"
    /\ LET name == SnapshotName(branchName)
       IN  /\ httpLog' = Append(httpLog,
                 Req("POST", "branches/{id}/snapshot", target[1].id, <<name>>))
           /\ \E status \in HttpStatus : LET ok == ResponseOk(status) IN
                /\ failed' = HttpAnswer(status)
                /\ IF ~ok
                   THEN /\ Exit(1, "Failed to create snapshot")
                        /\ UNCHANGED <<snapshots, resp>>
                   ELSE \E st \in {"creating", "active"} :
                        LET snap == [id |-> "snap-new", name |-> name,
                                     status |-> st]
                        IN  /\ snapshots' = Append(snapshots, snap)
                            /\ resp' = <<snap>>
                            /\ Exit(0, "")
    /\ UNCHANGED <<inputs, gitCur, gitBranches, branches, envFile, envWrites, gitLog,
                   branchName, branchesData, target, devBranch, databaseUrl>>
    /\ UNCHANGED <<currentBranch, hierarchy, pageVars>>

----------------------------------------------------------------------------
(* test-commit-id *)

\* args.length === 0, the commit-id check and the configuration check
TC_Validate ==
    /\ script = "test" /\ pc = "start"
    /\ IF argv = <<>>
       THEN Exit(1, "Commit ID is required") /\ UNCHANGED branchName
       ELSE IF InvalidCommitId(argv[1])
       THEN Exit(1, "Invalid commit ID provided") /\ UNCHANGED branchName
       ELSE IF ConfigError # ""
       THEN Exit(1, ConfigError) /\ UNCHANGED branchName
       ELSE /\ branchName' = argv[1]
            /\ pc' = "status"
            /\ UNCHANGED <<exitCode, msg>>
    /\ UNCHANGED <<failed, inputs, gitCur, gitBranches, branches, snapshots,
                   envFile, envWrites,
                   httpLog, gitLog, branchesData, target, devBranch,
                   databaseUrl, resp>>
    /\ UNCHANGED <<currentBranch, hierarchy, pageVars>>

\* the probes of the current git state: git branch --show-current, and
\* git rev-parse --short HEAD when that gave nothing
CurrentRefProbes(ok) ==
    IF ok /\ gitCur # <<>>
    THEN <<Git("branch --show-current", <<>>)>>
    ELSE <<Git("branch --show-current", <<>>), Git("rev-parse --short HEAD", <<>>)>>

\* Step 1a: git status, then the probes of the current branch or commit
TC_GitStatus ==
    /\ script = "test" /\ pc = "status"
    /\ \E ok \in BOOLEAN :
         IF ~ok
         THEN /\ gitLog' = Append(gitLog, Git("status", <<>>))
              /\ Exit(1, "Not in a git repository or git is not available")
         ELSE /\ \E probe \in BOOLEAN :
                   gitLog' = Append(gitLog, Git("status", <<>>))
                             \o CurrentRefProbes(probe)
              /\ pc' = "checkout"
              /\ UNCHANGED <<exitCode, msg>>
    /\ UNCHANGED <<failed, inputs, gitCur, gitBranches, branches, snapshots,
                   envFile, envWrites,
                   httpLog, branchName, branchesData, target, devBranch,
                   databaseUrl, resp>>
    /\ UNCHANGED <<currentBranch, hierarchy, pageVars>>

\* Step 1b: git checkout <commit-id> : detached HEAD
TC_Checkout ==
    /\ script = "test" /\ pc = "checkout"
    /\ gitLog' = Append(gitLog, Git("checkout", branchName))
    /\ \E ok \in BOOLEAN :
         IF ok
         THEN gitCur' = <<>> /\ pc' = "snapshots" /\ UNCHANGED <<exitCode, msg>>
         ELSE UNCHANGED gitCur /\ Exit(1, "Failed to checkout commit")
    /\ UNCHANGED <<failed, inputs, gitBranches, branches, snapshots, envFile,
                   envWrites, httpLog,
                   branchName, branchesData, target, devBranch, databaseUrl,
                   resp>>
    /\ UNCHANGED <<currentBranch, hierarchy, pageVars>>

\* snapshots.find(s => s.name === snapshotName)
\* variant: the lookup ignores case
FindSnapshotByName_Mut(list, name) ==
    LET P(s) == ToLowerCase(s.name) = ToLowerCase(name)
    IN  FindFirst(list, {e \in Range(list) : P(e)})

FindSnapshotByName(list, name) ==
    LET P(s) == s.name = name IN FindFirst(list, {e \in Range(list) : P(e)})

\* targetSnapshot.status && targetSnapshot.status !== "active"
NotReady(s) == s.status # "" /\ s.status # "active"

\* Step 2: GET /snapshots and the lookup of prod-<commit-id>
TC_FindSnapshot ==
    /\ script = "test" /\ pc = "snapshots"
    /\ httpLog' = Append(httpLog, Req("GET", "snapshots", "", <<>>))
    /\ \E status \in HttpStatus : LET ok == ResponseOk(status) IN
         /\ failed' = HttpAnswer(status)
         /\ IF ~ok
            THEN /\ Exit(1, "Failed to fetch snapshots")
                 /\ UNCHANGED target
            ELSE LET found == FindSnapshotByName(snapshots, SnapshotName(branchName))
                 IN  /\ target' = found
                     /\ IF found = <<>>
                        THEN Exit(1, "Snapshot not found")
                        ELSE IF NotReady(found[1])
                        THEN Exit(1, "Snapshot is not ready")
                        ELSE pc' = "restore" /\ UNCHANGED <<exitCode, msg>>
    /\ UNCHANGED <<inputs, gitCur, gitBranches, branches, snapshots, envFile, envWrites,
                   gitLog, branchName, branchesData, devBranch, databaseUrl,
                   resp>>
    /\ UNCHANGED <<currentBranch, hierarchy, pageVars>>

\* restoreRequest: name and finalize_restore (expire_at, two weeks from the
\* clock, is left out)
\* variant: the restore is finalized at once
RestoreRequest_Mut(commitId) == <<TestBranchName(commitId), TRUE>>

RestoreRequest(commitId) == <<TestBranchName(commitId), FALSE>>

\* Step 3: POST /snapshots/{id}/restore {name: test-<commit-id>,
\* finalize_restore: false}
TC_Restore ==
    /\ script = "test" /\ pc = "restore"
    /\ LET name == TestBranchName(branchName)
       IN  /\ httpLog' = Append(httpLog,
                 Req("POST", "snapshots/{id}/restore", target[1].id,
                     RestoreRequest(branchName)))
           /\ \E status \in HttpStatus : LET ok == ResponseOk(status) IN
                /\ failed' = HttpAnswer(status)
                /\ IF ~ok
                   THEN /\ Exit(1, "Failed to restore snapshot")
                        /\ UNCHANGED <<branches, resp>>
                   ELSE /\ branches' = Append(branches, NewBranch("br-test", name))
                        /\ resp' = <<NewBranch("br-test", name)>>
                        /\ pc' = "uri"
                        /\ UNCHANGED <<exitCode, msg>>
    /\ UNCHANGED <<inputs, gitCur, gitBranches, snapshots, envFile, envWrites, gitLog,
                   branchName, branchesData, target, devBranch, databaseUrl>>
    /\ UNCHANGED <<currentBranch, hierarchy, pageVars>>

\* Step 4: GET /connection_uri?branch_id=...&pooled=true
TC_ConnectionUri ==
    /\ script = "test" /\ pc = "uri"
    /\ httpLog' = Append(httpLog, Req("GET", "connection_uri", resp[1].id, <<>>))
    /\ \E status \in HttpStatus : LET ok == ResponseOk(status) IN
         /\ failed' = HttpAnswer(status)
         /\ IF ~ok
            THEN /\ Exit(1, "Failed to get connection URI")
                 /\ UNCHANGED databaseUrl
            ELSE \E c \in ConnectionUris :
                 /\ databaseUrl' = c.connection_uri
                 /\ pc' = "env"
                 /\ UNCHANGED <<exitCode, msg>>
    /\ UNCHANGED <<inputs, gitCur, gitBranches, branches, snapshots, envFile, envWrites,
                   gitLog, branchName, branchesData, target, devBranch, resp>>
    /\ UNCHANGED <<currentBranch, hierarchy, pageVars>>

\* the comment line written above the backup entry
BACKUP_COMMENT == "# Backup of original DATABASE_URL (before testing <commit-id>)"
NO_PREVIOUS == "# No previous DATABASE_URL found"

\* "Update or add DATABASE_URL": the replace when the text includes
\* DATABASE_URL= , else the entry is appended
TestUpsert(envContent, newDatabaseUrl) ==
    LET newLine == <<KEY, QUOTE>> \o newDatabaseUrl \o <<QUOTE>>
    IN  IF Includes(envContent, <<KEY>>)
        THEN ReplaceLine(envContent, <<KEY>>, newLine)
        ELSE envContent \o <<NL>> \o newLine \o <<NL>>

\* the text test-commit-id writes to .env for a given text and new URL
TestEnvContent(envContent, newDatabaseUrl) ==
    LET m == MatchLine(envContent, <<KEY>>)
        currentDatabaseUrl == IF m = <<>> THEN <<>> ELSE StripQuotes(m[1])
        saved == IF currentDatabaseUrl # <<>> THEN currentDatabaseUrl
                 ELSE <<NO_PREVIOUS>>
        a == TestUpsert(envContent, newDatabaseUrl)
    IN  IF ~Includes(a, <<ORIGINAL, KEY>>)
        THEN <<BACKUP_COMMENT, NL, ORIGINAL, KEY>> \o saved \o <<NL>> \o a
        ELSE ReplaceLine(a, <<ORIGINAL, KEY>>, <<ORIGINAL, KEY>> \o saved)

\* Step 5: back up and rewrite DATABASE_URL in .env (a failing read or write
\* is thrown to the catch-all); then the summary
TC_UpdateEnv ==
    /\ script = "test" /\ pc = "env"
    /\ \E ioOk \in BOOLEAN :
         /\ failed' = FileAnswer(ioOk)
         /\ IF ioOk
            THEN /\ envFile' = Written(TestEnvContent(ReadEnvOrEmpty, databaseUrl))
                 /\ envWrites' = envWrites + 1
                 /\ Exit(0, "")
            ELSE /\ UNCHANGED <<envFile, envWrites>>
                 /\ Exit(1, "file system error")
    /\ UNCHANGED <<inputs, gitCur, gitBranches, branches, snapshots, httpLog,
                   gitLog, branchName, branchesData, target, devBranch,
                   databaseUrl, resp>>
    /\ UNCHANGED <<currentBranch, hierarchy, pageVars>>

----------------------------------------------------------------------------
(* restore-prod *)

\* Step 1: git status; Step 2: the probes of the current branch or commit
RP_GitStatus ==
    /\ script = "restore" /\ pc = "start"
    /\ \E ok \in BOOLEAN :
         IF ~ok
         THEN /\ gitLog' = Append(gitLog, Git("status", <<>>))
              /\ Exit(1, "Not in a git repository or git is not available")
         ELSE /\ \E probe \in BOOLEAN :
                   gitLog' = Append(gitLog, Git("status", <<>>))
                             \o CurrentRefProbes(probe)
              /\ pc' = "main"
              /\ UNCHANGED <<exitCode, msg>>
    /\ UNCHANGED <<failed, inputs, gitCur, gitBranches, branches, snapshots,
                   envFile, envWrites,
                   httpLog, branchName, branchesData, target, devBranch,
                   databaseUrl, resp>>
    /\ UNCHANGED <<currentBranch, hierarchy, pageVars>>

\* where the run goes after a checkout candidate: the pull when the checkout
\* succeeded (checkoutSuccess = true), the next candidate's catch block
\* when it threw
\* variant: the next candidate is tried whatever the outcome
AfterCheckout_Mut(ok, next) == next

AfterCheckout(ok, next) == IF ok THEN "pull" ELSE next

\* Step 3, first candidate: git checkout main
RP_CheckoutMain ==
    /\ script = "restore" /\ pc = "main"
    /\ gitLog' = Append(gitLog, Git("checkout", s_main))
    /\ \E ok \in {CanCheckout(s_main), FALSE} :
         /\ failed' = GitAnswer(ok)
         /\ gitCur' = IF ok THEN s_main ELSE gitCur
         /\ pc' = AfterCheckout(ok, "master")
    /\ UNCHANGED <<inputs, gitBranches, branches, snapshots, envFile,
                   envWrites, httpLog,
                   exitCode, msg, branchName, branchesData, target, devBranch,
                   databaseUrl, resp>>
    /\ UNCHANGED <<currentBranch, hierarchy, pageVars>>

\* Step 3, second candidate: git checkout master
RP_CheckoutMaster ==
    /\ script = "restore" /\ pc = "master"
    /\ gitLog' = Append(gitLog, Git("checkout", s_master))
    /\ \E ok \in {CanCheckout(s_master), FALSE} :
         /\ failed' = GitAnswer(ok)
         /\ gitCur' = IF ok THEN s_master ELSE gitCur
         /\ pc' = AfterCheckout(ok, "default")
    /\ UNCHANGED <<inputs, gitBranches, branches, snapshots, envFile,
                   envWrites, httpLog,
                   exitCode, msg, branchName, branchesData, target, devBranch,
                   databaseUrl, resp>>
    /\ UNCHANGED <<currentBranch, hierarchy, pageVars>>

\* Step 3, third candidate: git symbolic-ref refs/remotes/origin/HEAD, then
\* git checkout of the branch it names; if (!checkoutSuccess) exit 1
RP_CheckoutDefault ==
    /\ script = "restore" /\ pc = "default"
    /\ \/ /\ gitLog' = Append(gitLog, Git("symbolic-ref refs/remotes/origin/HEAD", <<>>))
          /\ failed' = GitAnswer(FALSE)
          /\ UNCHANGED gitCur
          /\ Exit(1, "Failed to checkout to production branch")
       \/ \E d \in gitBranches :
            /\ gitLog' = gitLog \o <<Git("symbolic-ref refs/remotes/origin/HEAD", <<>>),
                                     Git("checkout", d)>>
            /\ \E ok \in BOOLEAN :
                 IF ok
                 THEN /\ gitCur' = d /\ pc' = "pull"
                      /\ UNCHANGED <<exitCode, msg, failed>>
                 ELSE /\ UNCHANGED gitCur
                      /\ failed' = failed \cup {Failure("git", Len(gitLog) + 2, 0)}
                      /\ Exit(1, "Failed to checkout to production branch")
    /\ UNCHANGED <<inputs, gitBranches, branches, snapshots, envFile,
                   envWrites, httpLog,
                   branchName, branchesData, target, devBranch, databaseUrl,
                   resp>>
    /\ UNCHANGED <<currentBranch, hierarchy, pageVars>>

\* git branch --show-current for the report; Step 4: git pull, whose failure
\* is only reported
RP_Pull ==
    /\ script = "restore" /\ pc = "pull"
    /\ gitLog' = gitLog \o <<Git("branch --show-current", <<>>), Git("pull", <<>>)>>
    /\ \E ok \in BOOLEAN :
         failed' = IF ok THEN failed
                   ELSE failed \cup {Failure("git", Len(gitLog) + 2, 0)}
    /\ pc' = "env"
    /\ UNCHANGED <<inputs, gitCur, gitBranches, branches, snapshots, envFile, envWrites,
                   httpLog, exitCode, msg, branchName, branchesData, target,
                   devBranch, databaseUrl, resp>>
    /\ UNCHANGED <<currentBranch, hierarchy, pageVars>>

\* the text restore-prod writes to .env, given the text read and the value
\* of PRODUCTION_DATABASE_URL
RestoreEnvContent(envContent, productionUrl) ==
    LET newLine == <<KEY, QUOTE>> \o productionUrl \o <<QUOTE>>
        a == IF Includes(envContent, <<KEY>>)
             THEN ReplaceLine(envContent, <<KEY>>, newLine)
             ELSE envContent \o <<NL>> \o newLine \o <<NL>>
    IN  CollapseBlank(a)

\* Step 5: DATABASE_URL := PRODUCTION_DATABASE_URL in .env; Step 6: the
\* commit hash for the report
RP_UpdateEnv ==
    /\ script = "restore" /\ pc = "env"
    /\ \E ioOk \in BOOLEAN :
         /\ failed' = FileAnswer(ioOk)
         /\ IF ~ioOk
            THEN /\ Exit(1, "file system error")
                 /\ UNCHANGED <<envFile, envWrites, databaseUrl, gitLog>>
            ELSE IF ~envFile.exists
            THEN /\ Exit(1, ".env file not found")
                 /\ UNCHANGED <<envFile, envWrites, databaseUrl, gitLog>>
            ELSE LET m == MatchLine(envFile.text, <<PRODUCTION, KEY>>)
                 IN  IF m = <<>>
                     THEN /\ Exit(1, "PRODUCTION_DATABASE_URL not found in .env file")
                          /\ UNCHANGED <<envFile, envWrites, databaseUrl, gitLog>>
                     ELSE /\ databaseUrl' = StripQuotes(m[1])
                          /\ envFile' = Written(RestoreEnvContent(envFile.text,
                                                                  StripQuotes(m[1])))
                          /\ envWrites' = envWrites + 1
                          /\ gitLog' = Append(gitLog, Git("rev-parse --short HEAD", <<>>))
                          /\ Exit(0, "")
    /\ UNCHANGED <<inputs, gitCur, gitBranches, branches, snapshots, httpLog,
                   branchName, branchesData, target, devBranch, resp>>
    /\ UNCHANGED <<currentBranch, hierarchy, pageVars>>

----------------------------------------------------------------------------
(* which-db.  The script reads DATABASE_URL, NEON_API_KEY and               *)
(* NEON_PROJECT_ID from the process environment, lists the branches, asks  *)
(* for the endpoints of each branch until one matches the host, and prints *)
(* the report.  A provider branch carries here its parent_id and its       *)
(* endpoints as well.                                                      *)

HOST_TWO == "ep-two.aws.neon.tech"
POOLER_HOST_TWO == "ep-two-pooler.aws.neon.tech"
LOCALHOST == "localhost"

\* extractHostFromDatabaseUrl: new URL(databaseUrl).hostname, null when the
\* text is not a URL
extractHostFromDatabaseUrl(url) ==
    IF Len(url) = 3 /\ url[1] = URI_HEAD THEN <<url[2]>> ELSE <<>>

\* extractEndpointIdFromHost: the first group of
\* /^(ep-[a-z0-9-]+)(?:-pooler)?\..*\.neon\.tech$/ ; the group is greedy and
\* takes the -pooler suffix with it
extractEndpointIdFromHost(host) ==
    IF host = HOST THEN <<"ep-one">>
    ELSE IF host = POOLER_HOST THEN <<"ep-one-pooler">>
    ELSE IF host = HOST_TWO THEN <<"ep-two">>
    ELSE IF host = POOLER_HOST_TWO THEN <<"ep-two-pooler">>
    ELSE <<>>

\* endpoint.host.replace(/^(ep-[a-z0-9-]+)\./, "$1-pooler.")
pooledHost(host) ==
    IF host = HOST THEN POOLER_HOST
    ELSE IF host = HOST_TWO THEN POOLER_HOST_TWO
    ELSE host

\* directMatch || pooledMatch || endpointIdMatch
EndpointMatches(endpoint, host, endpointId) ==
    \/ endpoint.host = host
    \/ pooledHost(endpoint.host) = host
    \/ endpoint.id = endpointId

\* the request for the endpoints of one branch
\* variant: the endpoints are asked for with a POST
EndpointsRequest_Mut(branch) ==
    Req("POST", "branches/{id}/endpoints", branch.id, <<>>)

EndpointsRequest(branch) == Req("GET", "branches/{id}/endpoints", branch.id, <<>>)

\* what no step of which-db touches
WD_Frame ==
    UNCHANGED <<chain, env0, script, variant, argv, procEnv, gitCur, gitBranches,
                branches, snapshots, envFile, envWrites, gitLog, branchName,
                devBranch, pageVars>>

\* the checks before the try block: DATABASE_URL, its host, the endpoint id
\* of the host, then the configuration
WD_Args ==
    /\ script = "which" /\ pc = "start"
    /\ databaseUrl' = procEnv.DATABASE_URL
    /\ LET host == extractHostFromDatabaseUrl(procEnv.DATABASE_URL)
       IN  IF procEnv.DATABASE_URL = <<>>
           THEN Exit(1, "DATABASE_URL environment variable not found")
           ELSE IF host = <<>>
           THEN Exit(1, "Could not parse DATABASE_URL")
           ELSE IF extractEndpointIdFromHost(host[1]) = <<>>
           THEN Exit(1, "Could not extract endpoint ID from host")
           ELSE IF ConfigError # ""
           THEN Exit(1, ConfigError)
           ELSE pc' = "list" /\ UNCHANGED <<exitCode, msg>>
    /\ UNCHANGED <<httpLog, failed, branchesData, target, resp, currentBranch,
                   hierarchy>>
    /\ WD_Frame

\* Step 1: GET /branches
WD_ListBranches ==
    /\ script = "which" /\ pc = "list"
    /\ httpLog' = Append(httpLog, Req("GET", "branches", "", <<>>))
    /\ \E status \in HttpStatus : LET ok == ResponseOk(status) IN
         /\ failed' = HttpAnswer(status)
         /\ IF ~ok
            THEN Exit(1, "Failed to fetch branches") /\ UNCHANGED branchesData
            ELSE /\ branchesData' = branches
                 /\ pc' = "endpoints"
                 /\ UNCHANGED <<exitCode, msg>>
    /\ UNCHANGED <<databaseUrl, target, resp, currentBranch, hierarchy>>
    /\ WD_Frame

\* Step 2: GET /branches/{id}/endpoints for each branch in turn, until an
\* endpoint matches; a branch whose request fails is skipped
WD_Endpoints ==
    /\ script = "which" /\ pc = "endpoints"
    /\ \E oks \in [1..Len(branchesData) -> BOOLEAN] :
         LET host == extractHostFromDatabaseUrl(databaseUrl)[1]
             endpointId == extractEndpointIdFromHost(host)[1]
             Matching(i) ==
                 { k \in 1..Len(branchesData[i].endpoints) :
                     EndpointMatches(branchesData[i].endpoints[k], host, endpointId) }
             hits == { i \in 1..Len(branchesData) : oks[i] /\ Matching(i) # {} }
             stop == IF hits = {} THEN Len(branchesData)
                     ELSE CHOOSE i \in hits : \A j \in hits : i <= j
         IN  /\ httpLog' = httpLog \o [i \in 1..stop |-> EndpointsRequest(branchesData[i])]
             /\ failed' = failed \cup { Failure("http", Len(httpLog) + i, 500) :
                                         i \in { j \in 1..stop : ~oks[j] } }
             /\ target' = IF hits = {} THEN <<>> ELSE <<branchesData[stop]>>
             /\ resp' = IF hits = {} THEN <<>>
                        ELSE LET ks == Matching(stop)
                             IN  <<branchesData[stop].endpoints[
                                     CHOOSE k \in ks : \A l \in ks : k <= l]>>
    /\ pc' = "report"
    /\ UNCHANGED <<databaseUrl, branchesData, currentBranch, hierarchy, exitCode, msg>>
    /\ WD_Frame

\* Step 3: the report; a matching branch with a parent_id starts the walk up
\* the parent chain at itself
WD_Report ==
    /\ script = "which" /\ pc = "report"
    /\ IF target = <<>> \/ resp = <<>>
       THEN Exit(1, "No matching branch found") /\ UNCHANGED <<currentBranch, hierarchy>>
       ELSE IF target[1].parent_id # ""
       THEN /\ currentBranch' = target
            /\ hierarchy' = 1 % HierarchyWrap
            /\ pc' = "walk"
            /\ UNCHANGED <<exitCode, msg>>
       ELSE Exit(0, "") /\ UNCHANGED <<currentBranch, hierarchy>>
    /\ UNCHANGED <<httpLog, failed, databaseUrl, branchesData, target, resp>>
    /\ WD_Frame

\* branchesData.branches.find((b) => b.id === currentBranch.parent_id)
ParentOf(list, branch) ==
    FindFirst(list, {b \in Range(list) : b.id = branch.parent_id})

\* one turn of `while (currentBranch.parent_id)`: the name of the parent is
\* put in front of the hierarchy and the parent becomes the current branch;
\* the loop ends at a branch without parent_id or with a
\* parent that is not in the list, and the script then ends normally
WD_Walk ==
    /\ script = "which" /\ pc = "walk"
    /\ IF currentBranch[1].parent_id # ""
          /\ ParentOf(branchesData, currentBranch[1]) # <<>>
       THEN /\ currentBranch' = ParentOf(branchesData, currentBranch[1])
            /\ hierarchy' = (hierarchy + 1) % HierarchyWrap
            /\ UNCHANGED <<pc, exitCode, msg>>
       ELSE Exit(0, "") /\ UNCHANGED <<currentBranch, hierarchy>>
    /\ UNCHANGED <<httpLog, failed, databaseUrl, branchesData, target, resp>>
    /\ WD_Frame

----------------------------------------------------------------------------
(* The contacts page (src/app/page.tsx, component Home).  Every event      *)
(* handler is one action: React applies the state updates of one handler   *)
(* together.  An asynchronous handler is a call in flight that advances at *)
(* each await: first the answer to its own request, then the answer to the *)
(* GET of fetchContacts, after which the rest of the handler runs.  Calls  *)
(* in flight that agree in handler, position and closure are kept once.    *)

\* what no step of the page touches
scriptVars ==
    <<chain, env0, script, variant, pc, argv, procEnv, gitCur, gitBranches, branches,
      snapshots, envFile, envWrites, httpLog, gitLog, exitCode, msg, branchName,
      branchesData, target, devBranch, databaseUrl, resp, failed, currentBranch,
      hierarchy>>

\* what can be typed into the two inputs of the form
FormNames == {"Ann"}
FormEmails == {"ann@x.org"}

\* a call in flight: the handler, where it is waiting, and what its
\* closure holds (the contact id and the form data at the click)
Call(op, stage, id, body) == [op |-> op, stage |-> stage, id |-> id, body |-> body]

\* (isAddingContact || editingContact) : the form is rendered
FormShown == isAddingContact \/ editingContact # <<>>

\* the table is rendered: not loading, and there are contacts
TableShown == ~loading /\ contacts # <<>>

ContactId(n) == <<"c1", "c2", "c3", "c4">>[n]

\* const startAdd = () => { ... }
startAdd ==
    /\ isAddingContact' = TRUE
    /\ editingContact' = <<>>
    /\ formData' = NoFormData
    /\ UNCHANGED <<contacts, loading, error, inFlight, db, scriptVars>>

\* const startEdit = (contact) => { ... }
\* variant: the add flag is left as it is
startEdit_Mut(contact) ==
    /\ TableShown /\ contact \in Range(contacts)
    /\ editingContact' = <<contact>>
    /\ formData' = [name |-> contact.name, email |-> contact.email]
    /\ UNCHANGED <<isAddingContact, contacts, loading, error, inFlight, db, scriptVars>>

startEdit(contact) ==
    /\ TableShown /\ contact \in Range(contacts)
    /\ editingContact' = <<contact>>
    /\ formData' = [name |-> contact.name, email |-> contact.email]
    /\ isAddingContact' = FALSE
    /\ UNCHANGED <<contacts, loading, error, inFlight, db, scriptVars>>

\* const cancelForm = () => { ... }
cancelForm ==
    /\ FormShown
    /\ isAddingContact' = FALSE
    /\ editingContact' = <<>>
    /\ formData' = NoFormData
    /\ UNCHANGED <<contacts, loading, error, inFlight, db, scriptVars>>

\* onChange of the two inputs: setFormData({ ...formData, name | email })
onChange ==
    /\ FormShown
    /\ \/ \E v \in FormNames : formData' = [formData EXCEPT !.name = v]
       \/ \E v \in FormEmails : formData' = [formData EXCEPT !.email = v]
    /\ UNCHANGED <<contacts, loading, error, isAddingContact, editingContact,
                   inFlight, db, scriptVars>>

\* onClick of the submit button without editingContact: addContact up to
\* its first await, the POST of the form data
addContact ==
    /\ FormShown /\ editingContact = <<>>
    /\ Cardinality(inFlight) < MaxPending
    /\ inFlight' = inFlight \cup {Call("add", "request", "", formData)}
    /\ UNCHANGED <<contacts, loading, error, isAddingContact, editingContact,
                   formData, db, scriptVars>>

\* onClick of the submit button with editingContact: updateContact up to
\* its first await, the PUT of the form data for editingContact.id
updateContact ==
    /\ FormShown /\ editingContact # <<>>
    /\ Cardinality(inFlight) < MaxPending
    /\ inFlight' = inFlight \cup
                     {Call("update", "request", editingContact[1].id, formData)}
    /\ UNCHANGED <<contacts, loading, error, isAddingContact, editingContact,
                   formData, db, scriptVars>>

\* deleteContact(id) after the confirm dialog was accepted, up to its first
\* await, the DELETE
deleteContact(id) ==
    /\ TableShown /\ \E c \in Range(contacts) : c.id = id
    /\ Cardinality(inFlight) < MaxPending
    /\ inFlight' = inFlight \cup {Call("delete", "request", id, NoFormData)}
    /\ UNCHANGED <<contacts, loading, error, isAddingContact, editingContact,
                   formData, db, scriptVars>>

\* the rows of the table after the PUT / DELETE of one id
Updated(rows, id, body) ==
    [j \in 1..Len(rows) |->
        IF rows[j].id = id THEN [id |-> id, name |-> body.name, email |-> body.email]
        ELSE rows[j]]
Deleted(rows, id) == SelectSeq(rows, LAMBDA r : r.id # id)

\* the server can answer a request with a 2xx: POST with name and email
\* while it has ids left, PUT with name and email for a row that exists,
\* DELETE of a row that exists
CanAnswerOk(call) ==
    IF call.op = "add"
    THEN /\ call.body.name # "" /\ call.body.email # ""
         /\ db.issued < MaxContacts
    ELSE IF call.op = "update"
    THEN /\ call.body.name # "" /\ call.body.email # ""
         /\ \E j \in 1..Len(db.rows) : db.rows[j].id = call.id
    ELSE \E j \in 1..Len(db.rows) : db.rows[j].id = call.id

\* the table after the request of a call was served
Served(call) ==
    IF call.op = "add"
    THEN [rows |-> Append(db.rows, [id |-> ContactId(db.issued + 1),
                                     name |-> call.body.name,
                                     email |-> call.body.email]),
          issued |-> db.issued + 1]
    ELSE IF call.op = "update"
    THEN [db EXCEPT !.rows = Updated(db.rows, call.id, call.body)]
    ELSE [db EXCEPT !.rows = Deleted(db.rows, call.id)]

\* if (!response.ok) throw new Error(...): the message the catch block sets
FailureMessage(op) ==
    IF op = "add" THEN "Failed to add contact"
    ELSE IF op = "update" THEN "Failed to update contact"
    ELSE "Failed to delete contact"

\* the answer to the POST, PUT or DELETE of a call: on a 2xx the handler
\* goes on to `await fetchContacts()`, which sets loading; otherwise the
\* catch block sets the error and the handler is over
RequestAnswered(call) ==
    /\ call \in inFlight /\ call.stage = "request"
    /\ \E ok \in {CanAnswerOk(call), FALSE} :
         IF ok
         THEN /\ db' = Served(call)
              /\ loading' = TRUE
              /\ inFlight' = (inFlight \ {call})
                                \cup {[call EXCEPT !.stage = "refetch"]}
              /\ UNCHANGED error
         ELSE /\ error' = FailureMessage(call.op)
              /\ inFlight' = inFlight \ {call}
              /\ UNCHANGED <<db, loading>>
    /\ UNCHANGED <<contacts, isAddingContact, editingContact, formData, scriptVars>>

\* the answer to the GET of fetchContacts, and the rest of the handler that
\* awaited it: addContact clears the form and the add flag, updateContact
\* clears the form and editingContact
FetchAnswered(call) ==
    /\ call \in inFlight /\ call.stage = "refetch"
    /\ \E ok \in BOOLEAN :
         IF ok THEN contacts' = db.rows /\ UNCHANGED error
         ELSE error' = "Failed to fetch contacts" /\ UNCHANGED contacts
    /\ loading' = FALSE
    /\ formData' = IF call.op \in {"add", "update"} THEN NoFormData ELSE formData
    /\ isAddingContact' = IF call.op = "add" THEN FALSE ELSE isAddingContact
    /\ editingContact' = IF call.op = "update" THEN <<>> ELSE editingContact
    /\ inFlight' = inFlight \ {call}
    /\ UNCHANGED <<db, scriptVars>>

----------------------------------------------------------------------------
(* The states a run can start from *)

BranchIds == <<"br-1", "br-2", "br-3", "br-4">>
SnapshotIds == <<"snap-1", "snap-2", "snap-3", "snap-4">>

\* the branch lists of at most MaxBranches branches with the given names
BranchLists(names, flags) ==
    UNION { { [i \in 1..n |-> [id |-> BranchIds[i], name |-> f[i][1],
                               default |-> f[i][2], primary |-> f[i][3]]]
              : f \in [1..n -> names \X flags \X flags] }
            : n \in 0..MaxBranches }

\* the snapshot lists of at most MaxSnapshots snapshots with the given names
SnapshotLists(names) ==
    UNION { { [i \in 1..n |-> [id |-> SnapshotIds[i], name |-> f[i][1],
                               status |-> f[i][2]]]
              : f \in [1..n -> names \X SnapshotStatus] }
            : n \in 0..MaxSnapshots }

\* the .env texts of at most MaxEnvLines of the given lines, with and
\* without a final line feed, and the missing file
EnvTexts(lines) ==
    UNION { UNION { {Join(f), Join(f) \o <<NL>>} : f \in [1..n -> lines] }
            : n \in 0..MaxEnvLines }

EnvFiles(lines) ==
    {[exists |-> FALSE, text |-> <<>>]}
    \cup { [exists |-> TRUE, text |-> t] : t \in EnvTexts(lines) }

L_DB == <<KEY, QUOTE, "postgresql://old", QUOTE>>
L_PROD == <<PRODUCTION, KEY, QUOTE, "postgresql://prod", QUOTE>>
L_PROD_BARE == <<PRODUCTION, KEY, "postgresql://prod">>
L_DEV == <<DEVELOPMENT, KEY, QUOTE, "postgresql://dev", QUOTE>>
L_ORIG == <<ORIGINAL, KEY, "postgresql://first">>
L_OTHER == <<"NEON_PROJECT_ID=abc">>
L_BLANK == <<>>
\* two empty lines in a row
L_GAP == <<NL>>

DefaultEnv == [exists |-> TRUE, text |-> Join(<<L_DB, L_PROD>>) \o <<NL>>]

ProcEnvs ==
    { [NEON_API_KEY |-> TRUE, NEON_PROJECT_ID |-> TRUE],
      [NEON_API_KEY |-> FALSE, NEON_PROJECT_ID |-> TRUE],
      [NEON_API_KEY |-> TRUE, NEON_PROJECT_ID |-> FALSE] }

ConfigOk == [NEON_API_KEY |-> TRUE, NEON_PROJECT_ID |-> TRUE]

\* what every run starts with
InitRun ==
    /\ chain = <<>> /\ failed = {}
    /\ pc = "start" /\ exitCode = Running /\ msg = ""
    /\ httpLog = <<>> /\ gitLog = <<>> /\ envWrites = 0
    /\ branchName = <<>> /\ branchesData = <<>> /\ target = <<>>
    /\ devBranch = <<>> /\ databaseUrl = <<>> /\ resp = <<>>
    /\ currentBranch = <<>> /\ hierarchy = 0
    /\ PageDefaults /\ inFlight = {} /\ db = NoContacts

CleanupArgs ==
    { <<>>, <<s_main>>, <<s_Main>>, <<s_featSlash>>, <<s_flagShort>>,
      <<s_featSlash, s_flagShort>> }

InitCleanup ==
    /\ InitRun
    /\ script = "cleanup"
    /\ snapshots = <<>>
    /\ \/ /\ variant \in {"manual", "auto", "flag"}
          /\ argv \in CleanupArgs
          /\ procEnv \in ProcEnvs
          /\ gitCur \in {s_main, s_Main, s_featSlash, <<>>}
          /\ branches \in BranchLists({s_featDash, s_featSlash, s_dev, s_main},
                                      {FALSE})
          /\ envFile = DefaultEnv
       \/ /\ variant = "auto"
          /\ argv = <<s_featSlash>>
          /\ procEnv = ConfigOk
          /\ gitCur = s_featSlash
          /\ branches \in { <<NewBranch("br-1", s_dev)>>,
                            <<NewBranch("br-1", s_featDash),
                              NewBranch("br-2", s_develop)>> }
          /\ envFile \in EnvFiles({L_DB, L_DEV, L_OTHER})
    /\ gitBranches = {s_main, s_featSlash} \cup ({gitCur} \ {<<>>})
    /\ env0 = envFile

NextCleanup ==
    \/ CF_Args \/ CF_Infer \/ CF_Protect \/ CF_Config \/ CF_ListBranches
    \/ CF_DeleteBranch \/ CF_DevBranch \/ CF_Endpoints \/ CF_UpdateEnv
    \/ CF_Checkout \/ CF_ForceDelete \/ CF_SafeDelete \/ CF_Finish

SpecCleanup == InitCleanup /\ [][NextCleanup]_vars

\* init-new-feature and create-snapshot over the provider's branch lists
InitProd ==
    /\ InitRun
    /\ script \in {"init", "snapshot"}
    /\ variant = "-"
    /\ argv \in IF script = "init" THEN { <<>>, <<s_featSlash>> }
                ELSE { <<c_abc123f>> }
    /\ procEnv \in ProcEnvs
    /\ gitCur = s_main
    /\ gitBranches = {s_main}
    /\ branches \in BranchLists({s_production, s_Production, s_main, s_staging},
                                BOOLEAN)
    /\ snapshots = <<>>
    /\ envFile = DefaultEnv
    /\ env0 = envFile

NextProd ==
    \/ IN_Args \/ IN_Checkout \/ IN_Pull \/ IN_Branch \/ IN_ListBranches
    \/ IN_CreateBranch \/ IN_UpdateEnv
    \/ CS_Validate \/ CS_ListBranches \/ CS_CreateSnapshot

SpecProd == InitProd /\ [][NextProd]_vars

\* init-new-feature over the .env texts
InitInit ==
    /\ InitRun
    /\ script = "init"
    /\ variant = "-"
    /\ argv \in { <<>>, <<s_featSlash>>, <<s_featDash>>, <<s_featMixed>> }
    /\ procEnv \in ProcEnvs
    /\ gitCur \in {s_main, s_featDash}
    /\ gitBranches = {s_main, s_featDash}
    /\ branches \in BranchLists({s_production, s_staging}, {TRUE})
    /\ snapshots = <<>>
    /\ envFile \in EnvFiles({L_DB, L_PROD, L_OTHER, L_BLANK})
    /\ env0 = envFile

NextInit ==
    \/ IN_Args \/ IN_Checkout \/ IN_Pull \/ IN_Branch \/ IN_ListBranches
    \/ IN_CreateBranch \/ IN_UpdateEnv

SpecInit == InitInit /\ [][NextInit]_vars

CommitArgs ==
    { <<>>, << <<>> >>, <<c_abc12>>, <<c_abc123>>, <<c_abc123f>>,
      <<c_ABC123F>>, <<c_abc123f0>> }

\* the snapshot names of the lists: prod-abc123f, its upper-case twin, and
\* the same with a suffix
SnapshotNames ==
    { SnapshotName(c_abc123f), SnapshotName(c_ABC123F), SnapshotName(c_abc123f0),
      <<"x">> \o SnapshotName(c_abc123f) }

\* create-snapshot and test-commit-id over the commit ids and snapshot lists
InitSnap ==
    /\ InitRun
    /\ script \in {"snapshot", "test"}
    /\ variant = "-"
    /\ gitCur = s_main
    /\ gitBranches = {s_main}
    /\ branches \in { <<>>, <<NewBranch("br-1", s_production)>> }
    /\ \/ /\ argv \in CommitArgs
          /\ procEnv \in ProcEnvs
          /\ snapshots \in { <<>>,
                             <<[id |-> "snap-1", name |-> SnapshotName(c_abc123f),
                                status |-> "active"]>> }
          /\ envFile = DefaultEnv
       \/ /\ script = "test"
          /\ argv \in { <<c_abc123f>>, <<c_ABC123F>> }
          /\ procEnv = ConfigOk
          /\ snapshots \in SnapshotLists(SnapshotNames)
          /\ envFile \in {DefaultEnv, [exists |-> FALSE, text |-> <<>>]}
    /\ env0 = envFile

NextSnap ==
    \/ CS_Validate \/ CS_ListBranches \/ CS_CreateSnapshot
    \/ TC_Validate \/ TC_GitStatus \/ TC_Checkout \/ TC_FindSnapshot
    \/ TC_Restore \/ TC_ConnectionUri \/ TC_UpdateEnv

SpecSnap == InitSnap /\ [][NextSnap]_vars

\* init-new-feature, create-snapshot and test-commit-id over the answers of
\* the provider
InitApi ==
    /\ InitRun
    /\ script \in {"init", "snapshot", "test"}
    /\ variant = "-"
    /\ argv \in IF script = "init" THEN { <<s_featSlash>>, <<s_featDash>> }
                ELSE { <<c_abc123f>>, <<c_ABC123F>> }
    /\ procEnv \in ProcEnvs
    /\ gitCur = s_main
    /\ gitBranches = {s_main}
    /\ branches \in BranchLists({s_production, s_staging}, {TRUE})
    /\ snapshots \in { <<>>,
                       <<[id |-> "snap-1", name |-> SnapshotName(c_abc123f),
                          status |-> "active"]>> }
    /\ envFile \in EnvFiles({L_DB, L_OTHER})
    /\ env0 = envFile

NextApi ==
    \/ IN_Args \/ IN_Checkout \/ IN_Pull \/ IN_Branch \/ IN_ListBranches
    \/ IN_CreateBranch \/ IN_UpdateEnv
    \/ CS_Validate \/ CS_ListBranches \/ CS_CreateSnapshot
    \/ TC_Validate \/ TC_GitStatus \/ TC_Checkout \/ TC_FindSnapshot
    \/ TC_Restore \/ TC_ConnectionUri \/ TC_UpdateEnv

SpecApi == InitApi /\ [][NextApi]_vars

\* restore-prod over the .env texts and the local branches
InitRestore ==
    /\ InitRun
    /\ script = "restore"
    /\ variant = "-"
    /\ argv = <<>>
    /\ procEnv \in ProcEnvs
    /\ gitBranches \in { {s_main, s_featDash}, {s_master, s_featDash},
                         {s_develop, s_featDash}, {} }
    /\ gitCur \in {s_featDash, <<>>} \cap (gitBranches \cup {<<>>})
    /\ branches = <<>>
    /\ snapshots = <<>>
    /\ envFile \in EnvFiles({L_DB, L_PROD, L_PROD_BARE, L_ORIG, L_OTHER, L_BLANK})
    /\ env0 = envFile

NextRestore ==
    \/ RP_GitStatus \/ RP_CheckoutMain \/ RP_CheckoutMaster
    \/ RP_CheckoutDefault \/ RP_Pull \/ RP_UpdateEnv

SpecRestore == InitRestore /\ [][NextRestore]_vars

\* what is on the command line of each script in a chain of runs
ChainArgv(s) ==
    IF s = "test" THEN <<c_abc123f>>
    ELSE IF s = "restore" THEN <<>>
    ELSE <<s_featSlash>>

\* the scripts that rewrite .env
ChainScripts == {"init", "test", "restore", "cleanup"}

\* After a script has ended normally the developer runs the next one: a
\* new process, with the .env file, the repository and the provider project
\* as the runs before left them.
NextRun ==
    /\ pc = "done" /\ exitCode = 0
    /\ Len(chain) + 1 < MaxRuns
    /\ chain' = Append(chain, script)
    /\ \E s \in ChainScripts :
         /\ script' = s
         /\ variant' = IF s = "cleanup" THEN "auto" ELSE "-"
         /\ argv' = ChainArgv(s)
    /\ pc' = "start" /\ exitCode' = Running /\ msg' = ""
    /\ httpLog' = <<>> /\ gitLog' = <<>> /\ envWrites' = 0 /\ failed' = {}
    /\ branchName' = <<>> /\ branchesData' = <<>> /\ target' = <<>>
    /\ devBranch' = <<>> /\ databaseUrl' = <<>> /\ resp' = <<>>
    /\ UNCHANGED <<env0, procEnv, gitCur, gitBranches, branches, snapshots, envFile>>
    /\ UNCHANGED <<currentBranch, hierarchy, pageVars>>

\* chains of runs of the scripts that rewrite .env, every one of them able
\* to succeed: a production and a development branch, a snapshot of the
\* commit, the configuration set
InitChain ==
    /\ InitRun
    /\ script \in ChainScripts
    /\ variant = IF script = "cleanup" THEN "auto" ELSE "-"
    /\ argv = ChainArgv(script)
    /\ procEnv = ConfigOk
    /\ gitCur = s_main
    /\ gitBranches = {s_main}
    /\ branches = << [id |-> BranchIds[1], name |-> s_production,
                      default |-> TRUE, primary |-> TRUE],
                     NewBranch(BranchIds[2], s_development) >>
    /\ snapshots = << [id |-> SnapshotIds[1], name |-> SnapshotName(c_abc123f),
                       status |-> "active"] >>
    /\ envFile \in EnvFiles({L_DB, L_PROD, L_DEV, L_ORIG, L_OTHER, L_GAP})
    /\ env0 = envFile

NextChain ==
    \/ NextRun
    \/ CF_Args \/ CF_Protect \/ CF_Config \/ CF_ListBranches
    \/ CF_DeleteBranch \/ CF_DevBranch \/ CF_UpdateEnv
    \/ CF_Checkout \/ CF_ForceDelete \/ CF_SafeDelete \/ CF_Finish
    \/ IN_Args \/ IN_Checkout \/ IN_Pull \/ IN_Branch \/ IN_ListBranches
    \/ IN_CreateBranch \/ IN_UpdateEnv
    \/ TC_Validate \/ TC_GitStatus \/ TC_Checkout \/ TC_FindSnapshot
    \/ TC_Restore \/ TC_ConnectionUri \/ TC_UpdateEnv
    \/ RP_GitStatus \/ RP_CheckoutMain \/ RP_CheckoutMaster
    \/ RP_CheckoutDefault \/ RP_Pull \/ RP_UpdateEnv

SpecChain == InitChain /\ [][NextChain]_vars

\* After init-new-feature has ended normally the developer runs
\* cleanup-feature, in any of its variants, for the same git branch name.
CleanupAfterInit ==
    /\ script = "init" /\ pc = "done" /\ exitCode = 0
    /\ chain = <<>>
    /\ chain' = <<"init">>
    /\ script' = "cleanup"
    /\ \E v \in {"manual", "auto", "flag"} :
         /\ variant' = v
         /\ argv' \in IF v = "flag" THEN {argv, argv \o <<s_flagShort>>} ELSE {argv}
    /\ pc' = "start" /\ exitCode' = Running /\ msg' = ""
    /\ httpLog' = <<>> /\ gitLog' = <<>> /\ envWrites' = 0 /\ failed' = {}
    /\ branchName' = <<>> /\ branchesData' = <<>> /\ target' = <<>>
    /\ devBranch' = <<>> /\ databaseUrl' = <<>> /\ resp' = <<>>
    /\ UNCHANGED <<env0, procEnv, gitCur, gitBranches, branches, snapshots, envFile>>
    /\ UNCHANGED <<currentBranch, hierarchy, pageVars>>

\* init-new-feature then cleanup-feature for one branch name, in a project
\* that has its production branch and other branches, none of them carrying
\* the sanitized name already
InitRound ==
    /\ InitRun
    /\ script = "init"
    /\ variant = "-"
    /\ argv \in { <<s_featSlash>>, <<s_featDash>>, <<s_featMixed>> }
    /\ procEnv = ConfigOk
    /\ gitCur = s_main
    /\ gitBranches = {s_main}
    /\ branches \in { <<[id |-> "br-prod", name |-> s_production,
                          default |-> TRUE, primary |-> TRUE]>> \o l :
                        l \in BranchLists({s_featSlash, s_dev}, {FALSE}) }
    /\ snapshots = <<>>
    /\ envFile = DefaultEnv
    /\ env0 = envFile

NextRound ==
    \/ IN_Args \/ IN_Checkout \/ IN_Pull \/ IN_Branch \/ IN_ListBranches
    \/ IN_CreateBranch \/ IN_UpdateEnv
    \/ CleanupAfterInit
    \/ CF_Args \/ CF_Protect \/ CF_Config \/ CF_ListBranches
    \/ CF_DeleteBranch \/ CF_DevBranch \/ CF_Endpoints \/ CF_UpdateEnv
    \/ CF_Checkout \/ CF_ForceDelete \/ CF_SafeDelete \/ CF_Finish

SpecRound == InitRound /\ [][NextRound]_vars

\* the values of DATABASE_URL in the process environment: unset, not a URL,
\* a direct and a pooled Neon host, and a host that is not Neon's
DatabaseUrls ==
    { <<>>, <<"not a url">>, <<URI_HEAD, HOST, URI_TAIL>>,
      <<URI_HEAD, POOLER_HOST, URI_TAIL>>, <<URI_HEAD, LOCALHOST, URI_TAIL>> }

\* the endpoints a branch can have
EndpointLists ==
    { <<>>, <<[id |-> "ep-one", host |-> HOST]>>,
      <<[id |-> "ep-two", host |-> HOST_TWO]>> }

\* the branch lists of at most MaxBranches branches with parent_id and
\* endpoints; a parent_id is empty, the id of a branch of the list (the
\* branch itself included) or an id that is not in the list
WhichBranchLists ==
    UNION { { [i \in 1..n |-> [id |-> BranchIds[i], name |-> s_featDash,
                               default |-> FALSE, primary |-> FALSE,
                               parent_id |-> f[i][1], endpoints |-> f[i][2]]]
              : f \in [1..n -> ({"", "br-gone"} \cup {BranchIds[j] : j \in 1..n})
                               \X EndpointLists] }
            : n \in 0..MaxBranches }

\* which-db over the environments and the provider's branch lists
InitWhich ==
    /\ InitRun
    /\ script = "which"
    /\ variant = "-"
    /\ argv = <<>>
    /\ procEnv \in { [NEON_API_KEY |-> e.NEON_API_KEY,
                       NEON_PROJECT_ID |-> e.NEON_PROJECT_ID,
                       DATABASE_URL |-> u] : e \in ProcEnvs, u \in DatabaseUrls }
    /\ gitCur = s_main
    /\ gitBranches = {s_main}
    /\ branches \in WhichBranchLists
    /\ snapshots = <<>>
    /\ envFile = DefaultEnv
    /\ env0 = envFile

NextWhich ==
    \/ WD_Args \/ WD_ListBranches \/ WD_Endpoints \/ WD_Report \/ WD_Walk

SpecWhich == InitWhich /\ [][NextWhich]_vars

\* which-db when every enabled step is eventually taken
FairWhich == InitWhich /\ [][NextWhich]_vars /\ WF_vars(NextWhich)

\* the page after its first render: the useState defaults and the
\* fetchContacts of useEffect in flight; the table holds up to one contact
InitPage ==
    /\ chain = <<>> /\ failed = {} /\ script = "page" /\ variant = "-"
    /\ pc = "done" /\ exitCode = Running /\ msg = ""
    /\ argv = <<>> /\ procEnv = ConfigOk
    /\ gitCur = s_main /\ gitBranches = {s_main}
    /\ branches = <<>> /\ snapshots = <<>>
    /\ envFile = DefaultEnv /\ env0 = envFile /\ envWrites = 0
    /\ httpLog = <<>> /\ gitLog = <<>>
    /\ branchName = <<>> /\ branchesData = <<>> /\ target = <<>>
    /\ devBranch = <<>> /\ databaseUrl = <<>> /\ resp = <<>>
    /\ currentBranch = <<>> /\ hierarchy = 0
    /\ PageDefaults
    /\ inFlight = {Call("fetch", "refetch", "", NoFormData)}
    /\ db \in { NoContacts,
                 [rows |-> <<[id |-> ContactId(1), name |-> "Ann",
                              email |-> "ann@x.org"]>>, issued |-> 1] }

NextPage ==
    \/ startAdd
    \/ \E contact \in Range(contacts) : startEdit(contact)
    \/ cancelForm
    \/ onChange
    \/ addContact
    \/ updateContact
    \/ \E contact \in Range(contacts) : deleteContact(contact.id)
    \/ \E call \in inFlight : RequestAnswered(call)
    \/ \E call \in inFlight : FetchAnswered(call)

SpecPage == InitPage /\ [][NextPage]_vars

----------------------------------------------------------------------------
(* Properties *)

HasRequest(method, path) ==
    \E i \in 1..Len(httpLog) : httpLog[i].method = method /\ httpLog[i].path = path

HasGit(cmds) == \E i \in 1..Len(gitLog) : gitLog[i].cmd \in cmds

ConfigMessages ==
    { "NEON_API_KEY environment variable is required",
      "NEON_PROJECT_ID environment variable is required",
      "PRODUCTION_DATABASE_URL not found in .env file" }

\* the value of the DATABASE_URL entry of a .env text: <<value>>, <<>> if none
DatabaseUrlEntry(text) ==
    LET lines == Split(text)
        hits == { i \in 1..Len(lines) : Len(lines[i]) >= 1 /\ lines[i][1] = KEY }
    IN  IF hits = {} THEN <<>>
        ELSE LET i == CHOOSE j \in hits : \A k \in hits : j <= k
                 v == Tail(lines[i])
                 quoted == Len(v) >= 2 /\ v[1] = QUOTE /\ v[Len(v)] = QUOTE
             IN  << IF quoted THEN SubSeq(v, 2, Len(v) - 1) ELSE v >>

\* C1: in every run of cleanup-feature whose target branch name is one of the
\* protected names (compared case-insensitively), no DELETE request and no
\* local branch deletion is issued and the run does not end with exit code 0.
C1_ProtectedNeverCleaned ==
    (script = "cleanup" /\ branchName # <<>>
     /\ ToLowerCase(branchName) \in protectedBranches)
    => /\ ~HasRequest("DELETE", "branches/{id}")
       /\ ~HasGit({"branch -D", "branch -d"})
       /\ exitCode # 0

\* C2: for create-snapshot and test-commit-id, a commit id of at least 7
\* characters passes validation; a shorter or missing one ends the run with
\* exit code 1 before any provider request and any git command.
C2_CommitIdValidation ==
    (script \in {"snapshot", "test"} /\ pc # "start")
    => IF Len(Arg1) >= 7
       THEN msg \notin {"Commit ID is required", "Invalid commit ID provided"}
       ELSE pc = "done" /\ exitCode = 1 /\ httpLog = <<>> /\ gitLog = <<>>

C2_Witness ==
    /\ script = "test" /\ Arg1 = c_abc123 /\ procEnv = ConfigOk
    /\ pc = "done" /\ exitCode = 1

\* C3: a missing configuration value (NEON_API_KEY, NEON_PROJECT_ID,
\* PRODUCTION_DATABASE_URL) is reported before any provider request and
\* before any git command of the run.
C3_ConfigBeforeSideEffects ==
    msg \in ConfigMessages => httpLog = <<>> /\ gitLog = <<>>

\* the production branch has been looked for in the answer of GET /branches
Resolved ==
    /\ script \in {"init", "snapshot"}
    /\ HasRequest("GET", "branches")
    /\ msg # "Failed to fetch branches"

\* C4: whenever the list holds a branch named exactly "production", the
\* branch resolved is named "production"; a branch named "main" is resolved
\* only when no branch is named "production".
C4_NamePrecedence ==
    Resolved =>
      /\ (\E i \in 1..Len(branchesData) : branchesData[i].name = s_production)
         => (target # <<>> /\ target[1].name = s_production)
      /\ (target # <<>> /\ target[1].name = s_main)
         => ~\E i \in 1..Len(branchesData) : branchesData[i].name = s_production

\* C5: when no branch is named production or main, the first branch flagged
\* default is resolved if there is one, and only otherwise the first branch
\* flagged primary.
C5_DefaultBeforePrimary ==
    (Resolved /\ \A i \in 1..Len(branchesData) :
                     ToLowerCase(branchesData[i].name) \notin {s_production, s_main})
    => LET defaults == { i \in 1..Len(branchesData) : branchesData[i].default }
           primaries == { i \in 1..Len(branchesData) : branchesData[i].primary }
           First(S) == CHOOSE i \in S : \A k \in S : i <= k
       IN  IF defaults # {} THEN target = <<branchesData[First(defaults)]>>
           ELSE IF primaries # {} THEN target = <<branchesData[First(primaries)]>>
           ELSE TRUE

\* no branch of the list is a production candidate
NoCandidate(list) ==
    \A i \in 1..Len(list) :
        /\ ToLowerCase(list[i].name) \notin {s_production, s_main}
        /\ ~list[i].default /\ ~list[i].primary

ExpectedUrl(c) ==
    IF c.pooler_host = "" THEN c.connection_uri
    ELSE [i \in 1..Len(c.connection_uri) |->
             IF c.connection_uri[i] = c.host THEN c.pooler_host
             ELSE c.connection_uri[i]]

\* C7: on every successful init-new-feature run the one POST /branches
\* request carries parent_id = id of the resolved production branch and
\* name = the sanitized git branch name, and the DATABASE_URL entry of .env
\* is the first returned connection URI, with the pooler host when present.
C7_InitRequestAndEnv ==
    (script = "init" /\ pc = "done" /\ exitCode = 0)
    => /\ Cardinality({ i \in 1..Len(httpLog) : httpLog[i].method = "POST" }) = 1
       /\ \E i \in 1..Len(httpLog) :
            /\ httpLog[i].method = "POST" /\ httpLog[i].path = "branches"
            /\ httpLog[i].body[1] = target[1].id
            /\ httpLog[i].body[2] = Sanitize(Arg1)
       /\ target[1] \in Range(branchesData)
       /\ envFile.exists
       /\ DatabaseUrlEntry(envFile.text) = <<ExpectedUrl(resp[1])>>

C7_Witness ==
    /\ script = "init" /\ pc = "done" /\ exitCode = 0
    /\ Arg1 = s_featSlash /\ resp[1].pooler_host = POOLER_HOST
    /\ Len(branchesData) = 2

\* the snapshots of the list named exactly prod-<commit-id>
NamedForCommit == { i \in 1..Len(snapshots) : snapshots[i].name = s_prodDash \o Arg1 }

\* the snapshot list has been fetched
LookedUp ==
    script = "test" /\ HasRequest("GET", "snapshots")
    /\ msg # "Failed to fetch snapshots"

\* C8: test-commit-id calls the restore endpoint only if the list holds an
\* active snapshot named exactly prod-<commit-id>; when the snapshot is absent
\* or not active the run ends non-zero without restore and without writing
\* .env.
C8_RestoreOnlyActiveSnapshot ==
    script = "test" =>
      /\ HasRequest("POST", "snapshots/{id}/restore")
         => \E i \in NamedForCommit : snapshots[i].status = "active"
      /\ (LookedUp /\ (NamedForCommit = {}
                       \/ snapshots[CHOOSE i \in NamedForCommit :
                                       \A k \in NamedForCommit : i <= k].status
                          # "active"))
         => /\ pc = "done" /\ exitCode = 1
            /\ ~HasRequest("POST", "snapshots/{id}/restore")
            /\ envWrites = 0

\* C9: create-snapshot submits the name "prod-" + commit id and
\* test-commit-id selects only a snapshot whose name is exactly that string
\* (and selects one whenever the list holds such a name).
C9_SnapshotNameRoundTrip ==
    /\ script = "snapshot" =>
         \A i \in 1..Len(httpLog) :
             httpLog[i].method = "POST" => httpLog[i].body = <<s_prodDash \o Arg1>>
    /\ (script = "test" /\ target # <<>>) => target[1].name = s_prodDash \o Arg1
    /\ LookedUp => (target # <<>> <=> NamedForCommit # {})

C9_Witness ==
    /\ LookedUp /\ target # <<>> /\ Arg1 = c_abc123f
    /\ snapshots[1].name = s_prodDash \o c_ABC123F

\* the value of PRODUCTION_DATABASE_URL in a .env text, surrounding quotes
\* removed: <<value>>, <<>> when the key is absent
ProductionUrlEntry(text) ==
    LET lines == Split(text)
        hits == { i \in 1..Len(lines) :
                    Len(lines[i]) >= 2 /\ lines[i][1] = PRODUCTION /\ lines[i][2] = KEY }
    IN  IF hits = {} THEN <<>>
        ELSE LET i == CHOOSE j \in hits : \A k \in hits : j <= k
                 v == SubSeq(lines[i], 3, Len(lines[i]))
                 quoted == Len(v) >= 2 /\ v[1] = QUOTE /\ v[Len(v)] = QUOTE
             IN  << IF quoted THEN SubSeq(v, 2, Len(v) - 1) ELSE v >>

\* C10: after a successful restore-prod run the DATABASE_URL entry of .env
\* is the value of PRODUCTION_DATABASE_URL, whether or not a DATABASE_URL
\* line existed before; without PRODUCTION_DATABASE_URL the run ends with
\* exit code 1 and .env is not written.
C10_RestoreWritesProductionUrl ==
    script = "restore" =>
      /\ (pc = "done" /\ exitCode = 0)
         => /\ ProductionUrlEntry(envFile.text) # <<>>
            /\ DatabaseUrlEntry(envFile.text) = ProductionUrlEntry(envFile.text)
      /\ (pc = "done" /\ envFile.exists /\ ProductionUrlEntry(envFile.text) = <<>>)
         => exitCode = 1 /\ envWrites = 0

\* the value of the first line of a .env text that starts with the given
\* key: <<value>>, <<>> when no line does
KeyEntry(text, key) ==
    LET m == MatchLine(text, key)
    IN  IF m = <<>> THEN <<>> ELSE <<TrimQuotes(m[1])>>

\* every run of the chain, this one included, is a test-commit-id run
OnlyTestRuns == script = "test" /\ \A i \in 1..Len(chain) : chain[i] = "test"

\* C11: after a chain of successful test-commit-id runs the entry
\* ORIGINAL_DATABASE_URL is the one .env had before the chain if it had one,
\* and otherwise the DATABASE_URL value that .env had before the first run.
C11_BackupNeverOverwritten ==
    (OnlyTestRuns /\ pc = "done" /\ exitCode = 0
     /\ KeyEntry(env0.text, <<KEY>>) # <<>>)
    => KeyEntry(envFile.text, <<ORIGINAL, KEY>>)
         = IF KeyEntry(env0.text, <<ORIGINAL, KEY>>) # <<>>
           THEN KeyEntry(env0.text, <<ORIGINAL, KEY>>)
           ELSE KeyEntry(env0.text, <<KEY>>)

\* how many lines of a .env text begin with DATABASE_URL=
DatabaseUrlLines(text) ==
    Cardinality({ i \in 1..Len(Split(text)) : StartsWith(Split(text)[i], <<KEY>>) })

\* C12: starting from a .env with at most one line beginning with
\* DATABASE_URL=, after every successful run of a chain that wrote .env the
\* file has exactly one such line and it holds the value the run wrote.
C12_OneAuthoritativeEntry ==
    (DatabaseUrlLines(env0.text) <= 1
     /\ pc = "done" /\ exitCode = 0 /\ envWrites > 0)
    => /\ DatabaseUrlLines(envFile.text) = 1
       /\ KeyEntry(envFile.text, <<KEY>>) = <<databaseUrl>>

\* the text of .env before the first run ("" when there was no file)
Text0 == IF env0.exists THEN env0.text ELSE <<>>

\* the first run of a chain has ended normally and has written .env
FirstRunWrote ==
    chain = <<>> /\ pc = "done" /\ exitCode = 0 /\ envWrites = 1

\* C13: when init-new-feature, test-commit-id or cleanup-feature has upserted
\* DATABASE_URL, reading DATABASE_URL back gives the value written; the
\* upsert leaves the number of lines unchanged when a DATABASE_URL line
\* existed and adds at most one line when none existed.
C13_UpsertReadBack ==
    (FirstRunWrote /\ script \in {"init", "test", "cleanup"})
    => LET upserted == IF script = "test" THEN TestUpsert(Text0, databaseUrl)
                       ELSE envFile.text
           growth == Len(Split(upserted)) - Len(Split(Text0))
       IN  /\ KeyEntry(envFile.text, <<KEY>>) = <<databaseUrl>>
           /\ IF DatabaseUrlLines(Text0) > 0 THEN growth = 0 ELSE growth <= 1

\* the lines that do not start with one of the keys, in order
RECURSIVE OtherLines(_, _)
OtherLines(lines, keys) ==
    IF lines = <<>> THEN <<>>
    ELSE (IF \E k \in keys : StartsWith(Head(lines), k) THEN <<>>
          ELSE <<Head(lines)>>) \o OtherLines(Tail(lines), keys)

\* the keys a script may rewrite (and the comment above the backup entry)
TargetedKeys ==
    IF script = "test" THEN {<<KEY>>, <<ORIGINAL, KEY>>, <<BACKUP_COMMENT>>}
    ELSE {<<KEY>>}

\* C14: a run that rewrites .env keeps every line that is not a targeted
\* key, unchanged and in order, blank lines included; the only lines it may
\* add besides the targeted entries are empty lines after the kept ones.
C14_OtherLinesKept ==
    FirstRunWrote
    => LET before == OtherLines(Split(Text0), TargetedKeys)
           after == OtherLines(Split(envFile.text), TargetedKeys)
       IN  /\ Len(before) <= Len(after)
           /\ SubSeq(after, 1, Len(before)) = before
           /\ \A i \in (Len(before) + 1)..Len(after) : after[i] = <<>>

\* the characters a provider branch name may hold
NameChars == Range(LowerAlpha) \cup Range(UpperAlpha) \cup Digits \cup {"-"}

\* a sanitized form of x: as long as x, of letters, digits and hyphens only,
\* and left unchanged by the sanitizer
IsSanitized(y, x) ==
    /\ Len(y) = Len(x)
    /\ \A i \in 1..Len(y) : y[i] \in NameChars
    /\ Sanitize(y) = y

DeleteNotFound ==
    { f \in failed : f.op = "http" /\ f.status = 404
                     /\ httpLog[f.at].method = "DELETE" }

\* C16: in cleanup-feature a "not found" answer to the branch DELETE does
\* not fail the run: the run does not end with exit code 1 at the DELETE,
\* it goes on to the development-branch lookup and the git cleanup.
C16_DeleteNotFoundIsWarning ==
    (script = "cleanup" /\ DeleteNotFound # {})
    => ~(pc = "done" /\ exitCode = 1)

\* the git pull commands of this run that failed
PullFailures ==
    { f \in failed : f.op = "git"
                     /\ gitLog[f.at].cmd \in {"pull", "pull origin main"} }

\* C17: in restore-prod and init-new-feature a failing git pull is only a
\* warning: it is never the reason the run ends with exit code 1.
C17_PullFailureIsWarning ==
    (script \in {"restore", "init"} /\ PullFailures # {})
    => ~(pc = "done" /\ exitCode = 1 /\ msg = "git pull origin main failed")

\* reading or writing .env has failed in this run
FileFailed == \E f \in failed : f.op = "file"

\* C18: in init-new-feature, test-commit-id and cleanup-feature a failure to
\* read or write .env, after the provider change has succeeded, does not
\* make the run end with exit code 1.
C18_FileErrorIsWarning ==
    (script \in {"init", "test", "cleanup"} /\ FileFailed)
    => ~(pc = "done" /\ exitCode = 1)

\* the provider requests of this run that were answered with a non-2xx
HttpFailures == { f \in failed : f.op = "http" }

\* C19: in init-new-feature, create-snapshot and test-commit-id a non-2xx
\* answer to a provider call ends the run with exit code 1, the failed
\* request is the last one sent, and .env is as it was before the run; the
\* exit code is never anything but 0 or 1.
C19_ProviderErrorIsFatal ==
    script \in {"init", "snapshot", "test"}
    => /\ exitCode \in {Running, 0, 1}
       /\ HttpFailures # {}
          => /\ pc = "done" /\ exitCode = 1
             /\ \A f \in HttpFailures : f.at = Len(httpLog)
             /\ envWrites = 0 /\ envFile = env0

\* test-commit-id restored the branch and the connection-URI lookup, its
\* third request, was answered with a non-2xx
C19_Witness ==
    /\ script = "test" /\ pc = "done"
    /\ Len(httpLog) = 3
    /\ httpLog[2].method = "POST"
    /\ \E f \in HttpFailures : f.at = 3 /\ f.status = 500

\* the requests of this run that are not reads
Mutating == { i \in 1..Len(httpLog) : httpLog[i].method # "GET" }

\* C20: every mutating request of a test-commit-id run is the restore of the
\* snapshot with the body {name: "test-<commit-id>", finalize_restore:
\* false}, and there is at most one of them.
C20_RestoreIsTwoPhase ==
    script = "test"
    => /\ Cardinality(Mutating) <= 1
       /\ \A i \in Mutating :
            /\ httpLog[i].method = "POST"
            /\ httpLog[i].path = "snapshots/{id}/restore"
            /\ httpLog[i].body = <<s_testDash \o argv[1], FALSE>>

\* a test-commit-id run has sent its restore request
C20_Witness ==
    /\ script = "test"
    /\ \E i \in 1..Len(httpLog) : httpLog[i].path = "snapshots/{id}/restore"

\* cleanup-feature has ended with the completion summary
CleanupDone == script = "cleanup" /\ pc = "done" /\ exitCode = 0

\* C21: when cleanup-feature ends with exit code 0, no provider branch
\* carries the sanitized name of the feature, the local git branch of that
\* name is gone, and the working copy is on main.
C21_CleanupPostcondition ==
    CleanupDone
    => /\ \A i \in 1..Len(branches) : branches[i].name # Sanitize(branchName)
       /\ branchName \notin gitBranches
       /\ gitCur = s_main

\* the flag variant was invoked with the flag as its only argument
OnlyFlag == variant = "flag" /\ argv \in {<<s_flagLong>>, <<s_flagShort>>}

\* C25: in the flag variant of cleanup-feature, a run given only the flag
\* infers the branch name from the current git branch and never takes the
\* flag as the branch name; the local branch is deleted only with the flag.
C25_FlagIsNotBranchName ==
    /\ (script = "cleanup" /\ OnlyFlag /\ pc # "start")
       => /\ branchName \notin {s_flagLong, s_flagShort}
          /\ gitLog # <<>> /\ gitLog[1].cmd = "branch --show-current"
    /\ (script = "cleanup" /\ variant = "flag" /\ ~ShouldDeleteGitBranch)
       => \A i \in 1..Len(gitLog) : gitLog[i].cmd \notin {"branch -D", "branch -d"}

\* the positions in gitLog of the force deletes and of the safe deletes
ForceDeletes == { i \in 1..Len(gitLog) : gitLog[i].cmd = "branch -D" }
SafeDeletes == { i \in 1..Len(gitLog) : gitLog[i].cmd = "branch -d" }

\* C26: cleanup-feature issues git branch -D only after a git branch -d of
\* the same run, and a failing deletion never makes the run exit with 1.
C26_SafeDeleteFirst ==
    script = "cleanup"
    => /\ \A i \in ForceDeletes : \E j \in SafeDeletes : j < i
       /\ (ForceDeletes \cup SafeDeletes # {}) => exitCode # 1

\* C22: which-db only reads: every provider request of a run is a GET, no
\* git command is executed and the .env file is never written.
C22_WhichIsReadOnly ==
    script = "which"
    => /\ \A i \in 1..Len(httpLog) : httpLog[i].method = "GET"
       /\ gitLog = <<>>
       /\ envWrites = 0 /\ envFile = env0

\* a which-db run has found its branch after asking for endpoints
C22_Witness ==
    /\ script = "which" /\ pc = "done" /\ exitCode = 0
    /\ Len(httpLog) >= 2
    /\ httpLog[2].path = "branches/{id}/endpoints"

\* C28: the parent-chain walk of which-db ends for every branch list: every
\* run of which-db terminates.
C28_WalkTerminates == (script = "which") => <>(pc = "done")

\* a restore-prod run that follows a test-commit-id run has ended with 0
RestoredAfterTest ==
    /\ script = "restore" /\ pc = "done" /\ exitCode = 0
    /\ chain # <<>> /\ chain[Len(chain)] = "test"

\* C23: after a successful restore-prod run that follows a test-commit-id
\* run, .env holds neither the ORIGINAL_DATABASE_URL entry nor the comment
\* line that test-commit-id wrote above it.
C23_RestoreRemovesBackup ==
    RestoredAfterTest
    => /\ ~Includes(envFile.text, <<ORIGINAL, KEY>>)
       /\ \A i \in 1..Len(envFile.text) : envFile.text[i] # BACKUP_COMMENT

\* C24: test-commit-id leaves .env alone: in every run the file is never
\* written and its text stays the one from before the run.
C24_TestLeavesEnvAlone ==
    (script = "test" /\ chain = <<>>) => (envWrites = 0 /\ envFile = env0)

\* the positions in gitLog of the checkouts, and whether a command failed
Checkouts == { i \in 1..Len(gitLog) : gitLog[i].cmd = "checkout" }
GitFailedAt(i) == \E f \in failed : f.op = "git" /\ f.at = i

\* the checkout step of restore-prod is over and no candidate succeeded
NoCheckoutSucceeded ==
    /\ pc \in {"pull", "env", "done"}
    /\ Checkouts # {}
    /\ \A i \in Checkouts : GitFailedAt(i)

\* C27: restore-prod tries git checkout main first, git checkout master
\* second and the remote default branch (after git symbolic-ref) third; a
\* candidate is tried only after every earlier one failed; when none
\* succeeds the run ends with exit code 1, without a pull and with .env
\* untouched.
C27_CheckoutOrder ==
    (script = "restore" /\ chain = <<>>)
    => /\ Cardinality(Checkouts) <= 3
       /\ \A i \in Checkouts :
            LET earlier == Cardinality({ j \in Checkouts : j < i })
            IN  /\ earlier = 0 => gitLog[i].arg = s_main
                /\ earlier = 1 => gitLog[i].arg = s_master
                /\ earlier = 2 =>
                     gitLog[i - 1].cmd = "symbolic-ref refs/remotes/origin/HEAD"
                /\ \A j \in Checkouts : j < i => GitFailedAt(j)
       /\ NoCheckoutSucceeded
          => /\ pc = "done" /\ exitCode = 1
             /\ \A i \in 1..Len(gitLog) : gitLog[i].cmd # "pull"
             /\ envWrites = 0 /\ envFile = env0

\* main and master could not be checked out, the default branch could, and
\* the run went on
C27_Witness ==
    /\ script = "restore" /\ pc = "done" /\ exitCode = 0
    /\ Cardinality(Checkouts) = 3

\* cleanup-feature, run after init-new-feature for the same name, has read
\* the branch list
ListedAfterInit ==
    script = "cleanup" /\ chain = <<"init">> /\ branchesData # <<>>

\* C29: cleanup-feature run after init-new-feature for the same git branch
\* name selects the provider branch that init created, and no other.
C29_RoundTrip ==
    ListedAfterInit => (target # <<>> /\ target[1].id = "br-new")

\* C30: the form of the contacts page is never in add mode and in edit
\* mode at once.
C30_AddXorEdit == ~(isAddingContact /\ editingContact # <<>>)

\* an edit was started while an addContact call was still in flight
C30_Witness ==
    /\ editingContact # <<>>
    /\ \E call \in inFlight : call.op = "add"
====
